---- MODULE Spec2Model ----
(***************************************************************************)
(* Sugar & Insulin Tracker: the serverless webhook relay                   *)
(* (api/webhook-proxy.js, listed at the end of QA_REPORT.md) and the       *)
(* emergency submission flow of the browser (Forms.onEmergencySubmit and   *)
(* useDatabase.createEmergency / saveMedications).                         *)
(*                                                                         *)
(* Every `await` of the source is a point where the environment decides    *)
(* the outcome; the code between two awaits is one action.                 *)
(***************************************************************************)
EXTENDS Integers, Sequences, FiniteSets, TLC

VARIABLES
    \* ---- webhook relay: one invocation of handler(request, response)
    rPc,        \* "idle" | "fetch" | "json" | "done"
    rEnv,       \* process.env: [url, secret]
    rReq,       \* request: [method, body]
    rRes,       \* res, what fetch resolved with: [status, text]
    rResp,      \* what response.status(..).json(..) sent: [status, body]
    rCalls,     \* outbound fetch calls of this invocation, in order
    rLog,       \* console.error lines of this invocation
    \* ---- browser: Forms.onEmergencySubmit and useDatabase.createEmergency
    ePc,        \* position of the submission (the await it is suspended at)
    cfg,        \* import.meta.env of the loaded bundle: [vite, n8n, dev]
    auth,       \* useAuth() as captured by the render: [user, profileUser, isDemo]
    values,     \* the form values handed to onEmergencySubmit
    events,     \* store table emergency_events
    medRows,    \* store table emergency_medications
    data,       \* the row the insert returned to createEmergency
    payload,    \* webhookPayload built by createEmergency
    posts,      \* webhook fetch calls of this submission, in order
    emergency,  \* what createEmergency returned to onEmergencySubmit
    toasts,     \* showError / showSuccess calls of this submission, in order
    loading,    \* useDatabase's loading flag
    isEmergencyLoading,  \* Forms' loading flag
    formResets, \* emergencyForm.reset calls of this submission
    clock,      \* seconds shown by new Date()
    submissions, \* submissions started since the bundle was loaded
    calls,      \* store calls of this submission, in order
    formErrors, \* fields the resolver of the emergency form marked invalid
    \* ---- browser: the daily reading form, per tab, and its store table
    dPc,        \* "unmounted" | "idle" | "upsert"
    dAuth,      \* useAuth() of the tab: [user, profileUser, isDemo]
    dLoad,      \* fetchExistingDates: "none" | "pending" | "done" | "failed" | "threw"
    dLoading,   \* useDatabase's loading flag in the tab
    existingDates,        \* Forms' existingDates
    showDuplicateDialog,  \* Forms' showDuplicateDialog
    pendingReadingData,   \* Forms' pendingReadingData
    isReadingLoading,     \* Forms' isReadingLoading
    dReq,       \* the object of the upsert in flight
    readings,   \* store table daily_readings
    dToasts,    \* showError / showSuccess calls since the tab's last submit
    dCalls,     \* createDailyReading calls of the tab's last submit
    dErrors,    \* fields the resolver of the reading form marked invalid
    applied,    \* the upserts the store applied, in order
    dialogChoice,   \* the button pressed in the duplicate-date dialog of the
                \* tab's last submit: "none" | "cancel" | "continue"
    \* ---- browser: the Profile page, AuthContext and the store table profiles
    pPc,        \* "unmounted" | "idle" | "update" | "fetch"
    pwPc,       \* "idle" | "password"
    pUser,      \* AuthContext's user
    pProfile,   \* AuthContext's profile
    profiles,   \* store table profiles
    pForm,      \* values of profileForm
    editingTelegramId,      \* Profile's editingTelegramId, an index or NoIndex
    editingSecondaryEmail,  \* Profile's editingSecondaryEmail
    savingContact,          \* Profile's savingContact
    isProfileLoading,       \* Profile's isProfileLoading
    isPasswordLoading,      \* Profile's isPasswordLoading
    originalFullName,       \* Profile's originalFullName
    showNameSaveMessage,    \* Profile's showNameSaveMessage
    pToasts,    \* showError / showSuccess calls of the last handler
    pCalls,     \* updateProfile / changePassword calls of the last handler
    pErrors,    \* field errors of the profile and password forms
    pLast,      \* the handler run last, and isDemo when it ran
    pUpdate,    \* the updateProfile call in flight: [source, updates]
    edits,      \* edits of the profile form since the page mounted
    \* ---- browser: AuthProvider (with pUser and pProfile) and the Dashboard
    aPc,        \* getInitialSession: "session" | "profile" | "done"
    aLoading,   \* AuthProvider's loading
    aFetches,   \* fetchProfile calls in flight, in order: [caller, userId, stage]
    aEvents,    \* auth-state-change callbacks started so far
    hMounted,   \* the Dashboard is mounted
    isInitialLoad,  \* Dashboard's isInitialLoad
    hReadings,  \* Dashboard's readings
    hLoads,     \* getDailyReadings calls of the Dashboard in flight: their user
    hIssued,    \* getDailyReadings queries issued since the Dashboard mounted
    hLast,      \* how the load that settled last ended: "none" | "ok" | "error"
    \* ---- browser: one MultiSelect and the form field it controls
    selected,   \* the field's value, MultiSelect's selected prop
    open,       \* MultiSelect's open
    searchValue,    \* MultiSelect's searchValue
    availableOptions,   \* MultiSelect's availableOptions, as rendered
    mLast,      \* the event handled last: [op, key]
    \* ---- browser: ReadingsTable
    tData,      \* the data prop: the dates of the readings, as day numbers
    tDate,      \* ReadingsTable's date, or NoDay
    dateRange,  \* ReadingsTable's dateRange: [from, to], NoDay when unset
    currentPage,    \* ReadingsTable's currentPage
    sortOrder,  \* ReadingsTable's sortOrder
    tLast       \* the operation handled last

rvars == <<rPc, rEnv, rReq, rRes, rResp, rCalls, rLog>>
evars == <<ePc, cfg, auth, values, events, medRows, data, payload, posts,
           emergency, toasts, loading, isEmergencyLoading, formResets, clock,
           submissions, calls, formErrors>>
eOwn == <<ePc, cfg, auth, values, events, medRows, data, payload, posts,
          emergency, toasts, loading, isEmergencyLoading, formResets, calls,
          formErrors>>
dvars == <<dPc, dAuth, dLoad, dLoading, existingDates, showDuplicateDialog,
           pendingReadingData, isReadingLoading, dReq, readings, dToasts, dCalls,
           dErrors, applied, dialogChoice>>
pvars == <<pPc, pwPc, pUser, pProfile, profiles, pForm, editingTelegramId,
           editingSecondaryEmail, savingContact, isProfileLoading, isPasswordLoading,
           originalFullName, showNameSaveMessage, pToasts, pCalls, pErrors, pLast,
           pUpdate, edits>>
pOwn == <<pPc, pwPc, profiles, pForm, editingTelegramId, editingSecondaryEmail,
          savingContact, isProfileLoading, isPasswordLoading, originalFullName,
          showNameSaveMessage, pToasts, pCalls, pErrors, pLast, pUpdate, edits>>
avars == <<aPc, aLoading, aFetches, aEvents, hMounted, isInitialLoad, hReadings,
           hLoads, hIssued, hLast>>
mvars == <<selected, open, searchValue, availableOptions, mLast>>
tvars == <<tData, tDate, dateRange, currentPage, sortOrder, tLast>>
vars == <<rvars, evars, dvars, pvars, avars, mvars, tvars>>

----------------------------------------------------------------------------
(* JSON values and HTTP body texts.  A text is what travels on the wire; a *)
(* value is what JSON.parse yields.  JSON.stringify always writes the      *)
(* compact form, so parse-then-stringify keeps the value and not the text. *)

JsonVal(k, v) == [key |-> k, val |-> v]

Undefined == JsonVal("undefined", "")

Text(kind, v, fmt) == [kind |-> kind, val |-> v, fmt |-> fmt]

NoBody == Text("none", Undefined, "none")

NotJsonText == Text("html", Undefined, "raw")

JSONStringify(v) == IF v = Undefined THEN NoBody ELSE Text("json", v, "compact")

JSONParse(t) ==
    IF t.kind = "json" THEN [ok |-> TRUE, data |-> t.val]
                       ELSE [ok |-> FALSE, data |-> Undefined]

\* what the destination may answer with
DestValues == {JsonVal("ok", "true"), JsonVal("error", "upstream"), JsonVal("items", "[]")}
DestTexts == {Text("json", v, f) : v \in DestValues, f \in {"compact", "spaced"}}
                \cup {NotJsonText, NoBody}
DestStatuses == {200, 201, 400, 500}

\* what the browser may send to the relay
Methods == {"POST", "GET", "PUT"}
ReqBodies == {JsonVal("record", "e1"), JsonVal("record", "e2"), Undefined}
EnvUrls == {"", "https://n8n/webhook"}
EnvSecrets == {"", "s3cret"}

NoRes == [status |-> 0, text |-> NoBody]
NoResp == [status |-> 0, body |-> NoBody]
NoReq == [method |-> "", body |-> Undefined]
NoEnv == [url |-> "", secret |-> ""]

MissingEnvError == JsonVal("error", "Missing environment variables")
MethodError == JsonVal("error", "Method not allowed")
ProxyError == JsonVal("error", "Webhook proxy failed")
RelayErrors == {MissingEnvError, MethodError, ProxyError}

Json(status, d) == [status |-> status, body |-> JSONStringify(d)]

----------------------------------------------------------------------------
(* The relay handler.                                                      *)

ConfigMissing_BothAbsent(env) == env.url = "" /\ env.secret = ""

\* !n8nWebhookUrl || !webhookSecret
ConfigMissing(env) == env.url = "" \/ env.secret = ""

Precheck_NoMethodGate(env, req) ==
    IF ConfigMissing(env) THEN "config" ELSE "ok"

\* the two guards of the handler, in the order the handler applies them
Precheck(env, req) ==
    IF ConfigMissing(env) THEN "config"
    ELSE IF req.method # "POST" THEN "method"
    ELSE "ok"

CatchResponse_DestStatus(res) == Json(res.status, ProxyError)

\* the catch block's answer
CatchResponse(res) == Json(500, ProxyError)

RespondWith_Always200(res, d) == Json(200, d)

\* response.status(res.status).json(data)
RespondWith(res, d) == Json(res.status, d)

\* handler, from its entry to the first await (or to its return)
Handler(env, req) ==
    /\ rPc = "idle"
    /\ UNCHANGED <<evars, dvars, pvars, avars, mvars, tvars>>
    /\ rEnv' = env
    /\ rReq' = req
    /\ IF Precheck(env, req) = "config"
       THEN /\ rResp' = Json(500, MissingEnvError)
            /\ rPc' = "done"
            /\ UNCHANGED <<rCalls, rRes, rLog>>
       ELSE IF Precheck(env, req) = "method"
       THEN /\ rResp' = Json(405, MethodError)
            /\ rPc' = "done"
            /\ UNCHANGED <<rCalls, rRes, rLog>>
       ELSE /\ rCalls' = Append(rCalls, [url |-> env.url, method |-> "POST",
                                         secret |-> env.secret,
                                         body |-> JSONStringify(req.body)])
            /\ rPc' = "fetch"
            /\ UNCHANGED <<rResp, rRes, rLog>>

\* await fetch(...) resolves with the destination's response
FetchResolves(status, text) ==
    /\ rPc = "fetch"
    /\ UNCHANGED <<evars, dvars, pvars, avars, mvars, tvars>>
    /\ rRes' = [status |-> status, text |-> text]
    /\ rPc' = "json"
    /\ UNCHANGED <<rEnv, rReq, rResp, rCalls, rLog>>

FetchRejects_Retry ==
    /\ rPc = "fetch"
    /\ UNCHANGED <<evars, dvars, pvars, avars, mvars, tvars>>
    /\ rLog' = Append(rLog, "Webhook proxy error")
    /\ IF Len(rCalls) < 2
       THEN /\ rCalls' = Append(rCalls, rCalls[1])
            /\ UNCHANGED <<rResp, rPc>>
       ELSE /\ rResp' = CatchResponse(rRes)
            /\ rPc' = "done"
            /\ UNCHANGED rCalls
    /\ UNCHANGED <<rEnv, rReq, rRes>>

\* await fetch(...) rejects (network error): the catch block answers
FetchRejects ==
    /\ rPc = "fetch"
    /\ UNCHANGED <<evars, dvars, pvars, avars, mvars, tvars>>
    /\ rLog' = Append(rLog, "Webhook proxy error")
    /\ rResp' = CatchResponse(rRes)
    /\ rPc' = "done"
    /\ UNCHANGED <<rEnv, rReq, rRes, rCalls>>

\* await res.json(), then response.status(res.status).json(data); a text
\* that is not JSON makes res.json() reject and the catch block answers
ResJson ==
    /\ rPc = "json"
    /\ UNCHANGED <<evars, dvars, pvars, avars, mvars, tvars>>
    /\ LET p == JSONParse(rRes.text) IN
       IF p.ok
       THEN /\ rResp' = RespondWith(rRes, p.data)
            /\ UNCHANGED rLog
       ELSE /\ rLog' = Append(rLog, "Webhook proxy error")
            /\ rResp' = CatchResponse(rRes)
    /\ rPc' = "done"
    /\ UNCHANGED <<rEnv, rReq, rRes, rCalls>>

\* the next, independent invocation: nothing is kept between invocations
NextInvocation ==
    /\ rPc = "done"
    /\ UNCHANGED <<evars, dvars, pvars, avars, mvars, tvars>>
    /\ rPc' = "idle"
    /\ rEnv' = NoEnv
    /\ rReq' = NoReq
    /\ rRes' = NoRes
    /\ rResp' = NoResp
    /\ rCalls' = <<>>
    /\ rLog' = <<>>

RelayInit ==
    /\ rPc = "idle"
    /\ rEnv = NoEnv
    /\ rReq = NoReq
    /\ rRes = NoRes
    /\ rResp = NoResp
    /\ rCalls = <<>>
    /\ rLog = <<>>

RelayNext ==
    \/ \E u \in EnvUrls, s \in EnvSecrets, m \in Methods, b \in ReqBodies :
          Handler([url |-> u, secret |-> s], [method |-> m, body |-> b])
    \/ \E st \in DestStatuses, t \in DestTexts : FetchResolves(st, t)
    \/ FetchRejects
    \/ ResJson
    \/ NextInvocation

----------------------------------------------------------------------------
(* The browser: Forms.onEmergencySubmit, useDatabase.createEmergency and   *)
(* useDatabase.saveMedications.  The submit button is disabled while       *)
(* isEmergencyLoading, so one submission is in flight at a time.           *)

MaxSubmissions == 2

NoUser == ""
Users == {"u1"}

\* the secret header written in createEmergency
ClientSecret == "4sD8fJk9PqZ!vT2LmN6xW"
NoSecret == ""

\* the values of the two environment variables, when set
ViteUrl == "VITE_N8N_EMERGENCY_WEBHOOK_URL"
N8nUrl == "N8N_EMERGENCY_WEBHOOK_URL"

WebhookStatuses == {200, 204, 404, 500}

ResponseOk_Below500(status) == status < 500

\* response.ok
ResponseOk(status) == status \in 200..299

Success(msg) == [kind |-> "success", msg |-> msg]
Error(msg) == [kind |-> "error", msg |-> msg]

WebhookWarning == Error("Webhook delivery failed, but report saved.")
ReportSaved == Success("Emergency report saved successfully")
MedsFailed == Error("Failed to save medications: message")
MedsThrew == Error("Failed to save medications. Please try again.")

\* Array.prototype.join(', ')
Join(parts) == [sep |-> ", ", parts |-> parts]
NullString == [sep |-> "null", parts |-> <<>>]

Truthy(str) == str # ""

\* a Date of the date picker, and the unset one
Date(y, m, d) == [y |-> y, m |-> m, d |-> d]
NoDate == Date(0, 0, 0)

\* date-fns format(date, 'yyyy-MM-dd')
Format(date) ==
    LET Pad2(n) == IF n < 10 THEN "0" \o ToString(n) ELSE ToString(n)
    IN ToString(date.y) \o "-" \o Pad2(date.m) \o "-" \o Pad2(date.d)

\* Number(val) of the text of a numeric input; numbers are held in tenths
NumberOf(val) ==
    CASE val = "-1"  -> [kind |-> "number", n |-> -10]
      [] val = "0"   -> [kind |-> "number", n |-> 0]
      [] val = "0.1" -> [kind |-> "number", n |-> 1]
      [] val = "1"   -> [kind |-> "number", n |-> 10]
      [] val = "45"  -> [kind |-> "number", n |-> 450]
      [] val = "100" -> [kind |-> "number", n |-> 1000]
      [] val = "101" -> [kind |-> "number", n |-> 1010]
      [] val = "500" -> [kind |-> "number", n |-> 5000]
      [] val = "501" -> [kind |-> "number", n |-> 5010]
      [] OTHER       -> [kind |-> "NaN", n |-> 0]

\* z.preprocess((val) => (val === "" || val === undefined ? undefined : Number(val)), ..)
Preprocess(val) == IF val = "" THEN [kind |-> "undefined", n |-> 0] ELSE NumberOf(val)

\* z.number().min(min).max(max)
ZNumber(p, min, max) == p.kind = "number" /\ p.n >= min /\ p.n <= max

\* the form values that pass emergencyFormSchema; numbers in tenths of a unit
Medications == {<<>>, <<[name |-> "Glucagon", dose |-> 10]>>}
FormValues ==
    [date : {Date(2025, 9, 10)}, time : {"08:30"}, sugarLevel : {450},
     symptoms : {<<"Dizziness">>}, additionalSymptoms : {"", "Nausea"},
     actionsTaken : {<<>>}, additionalActions : {""},
     medicationsGiven : Medications, notes : {""}]
NoValues == [date |-> NoDate, time |-> "", sugarLevel |-> 0, symptoms |-> <<>>,
             additionalSymptoms |-> "", actionsTaken |-> <<>>,
             additionalActions |-> "", medicationsGiven |-> <<>>, notes |-> ""]

\* isDemo is profile?.is_demo: without a profile it is false
AuthStates == {a \in [user : Users \cup {NoUser}, profileUser : Users \cup {NoUser},
                      isDemo : BOOLEAN] : a.isDemo => a.profileUser # NoUser}
NoAuth == [user |-> NoUser, profileUser |-> NoUser, isDemo |-> FALSE]

Configs == [vite : BOOLEAN, n8n : BOOLEAN, dev : BOOLEAN]
NoConfig == [vite |-> FALSE, n8n |-> FALSE, dev |-> FALSE]

\* Forms: emergencyData
EmergencyData(v) ==
    LET allSymptoms == v.symptoms \o
            (IF Truthy(v.additionalSymptoms) THEN <<v.additionalSymptoms>> ELSE <<>>)
        allActions == v.actionsTaken \o
            (IF Truthy(v.additionalActions) THEN <<v.additionalActions>> ELSE <<>>)
    IN [event_date |-> Format(v.date), event_time |-> v.time, sugar_level |-> v.sugarLevel,
        symptoms |-> Join(SelectSeq(allSymptoms, Truthy)),
        actions_taken |-> IF Len(SelectSeq(allActions, Truthy)) > 0
                          THEN Join(SelectSeq(allActions, Truthy)) ELSE NullString,
        notes |-> IF Truthy(v.notes) THEN v.notes ELSE "null"]

\* a row of emergency_events: the inserted fields, user_id and the id the
\* store assigns
Row(id, user, fields) == [id |-> id, user_id |-> user, fields |-> fields]
Null == Row(0, NoUser, EmergencyData(NoValues))
NotReturned == Row(-1, NoUser, EmergencyData(NoValues))

NoPayload == [record |-> Null, timestamp |-> -1]

WebhookPayload_WithoutId(row, now) ==
    [record |-> [row EXCEPT !.id = 0], timestamp |-> now]

\* createEmergency: webhookPayload = { record: {...data}, timestamp }
WebhookPayload(row, now) == [record |-> row, timestamp |-> now]

\* a fetch call of the browser and what became of it
Request(src, url, secret, body) ==
    [src |-> src, url |-> url, secret |-> secret, body |-> body,
     state |-> "pending", status |-> 0, textRead |-> "none"]

Stringify(body) == [kind |-> "json", val |-> body, fmt |-> "compact"]

\* postToWebhook: the first fetch
FirstAttempt(url, body) == Request("createEmergency", url, ClientSecret, Stringify(body))

RetryAttempt_NoSecret(url, body) == Request("createEmergency", url, NoSecret, Stringify(body))

\* postToWebhook: the fetch of the retry
RetryAttempt(url, body) == Request("createEmergency", url, ClientSecret, Stringify(body))

\* Forms: the fetch to N8N_EMERGENCY_WEBHOOK_URL
FormsAttempt(a, em, now) ==
    Request("Forms", N8nUrl, NoSecret,
            Stringify([emergency |-> em, user |-> a.profileUser, timestamp |-> now]))

Settled(ps, i, state, status) ==
    [ps EXCEPT ![i].state = state, ![i].status = status]

\* Forms, after the webhook block: reset and messages, then the finally block
FormsFinish(em, ts, ps) ==
    /\ ePc' = "idle"
    /\ posts' = ps
    /\ isEmergencyLoading' = FALSE
    /\ IF em # Null
       THEN /\ toasts' = Append(ts, Success("Emergency report submitted successfully"))
            /\ formResets' = formResets + 1
       ELSE /\ toasts' = Append(ts,
               Error("Failed to save emergency report. Please check your connection and try again."))
            /\ UNCHANGED formResets
    /\ UNCHANGED calls

\* Forms: `if (emergency) { const webhookUrl = ...N8N_EMERGENCY_WEBHOOK_URL`
FormsWebhook(a, em, ts, ps) ==
    IF em # Null /\ cfg.n8n
    THEN /\ ePc' = "formsPost"
         /\ posts' = Append(ps, FormsAttempt(a, em, clock))
         /\ toasts' = ts
         /\ UNCHANGED <<isEmergencyLoading, formResets, calls>>
    ELSE FormsFinish(em, ts, ps)

\* a call of the store client: table, operation, the user_id written or
\* filtered by (NoUser when the call names none) and the event_id written
StoreCall(table, op, user, eventId) ==
    [table |-> table, op |-> op, user_id |-> user, event_id |-> eventId]

\* createEmergency: .from('emergency_events').insert({...emergency, user_id})
EventInsertCall(user) == StoreCall("emergency_events", "insert", user, 0)

MedsInsertCall_NoEvent(eventId) == StoreCall("emergency_medications", "insert", NoUser, 0)

\* saveMedications: .from('emergency_medications').insert(medicationData)
MedsInsertCall(eventId) == StoreCall("emergency_medications", "insert", NoUser, eventId)

KeptMedications(v) == SelectSeq(v.medicationsGiven, LAMBDA m : m.name # "" /\ m.dose # 0)

\* Forms: the medication step after createEmergency has returned;
\* saveMedications returns at once when there is no user
FormsAfterCreate(a, v, em, ts, ps) ==
    IF em # Null /\ Len(v.medicationsGiven) > 0 /\ Len(KeptMedications(v)) > 0
    THEN IF a.user = NoUser
         THEN FormsWebhook(a, em, Append(ts, Error("Please log in to save medications")), ps)
         ELSE /\ ePc' = "meds"
              /\ posts' = ps
              /\ toasts' = ts
              /\ calls' = Append(calls, MedsInsertCall(em.id))
              /\ UNCHANGED <<isEmergencyLoading, formResets>>
    ELSE FormsWebhook(a, em, ts, ps)

\* createEmergency returns em (its finally block clears loading) and
\* onEmergencySubmit goes on
CreateReturns(a, v, em, ts, ps) ==
    /\ emergency' = em
    /\ loading' = FALSE
    /\ FormsAfterCreate(a, v, em, ts, ps)

\* what the user may have typed into the emergency form: values that pass
\* the schema, and values that each break one of its rules
RawFormValues ==
    LET valid ==
            [date : {Date(2025, 9, 10)}, time : {"08:30"}, sugarLevel : {"45"},
             symptoms : {<<"Dizziness">>}, additionalSymptoms : {"", "Nausea"},
             actionsTaken : {<<>>}, additionalActions : {""},
             medicationsGiven : {<<>>, <<[name |-> "Glucagon", dose |-> "1"]>>},
             notes : {""}]
        base == CHOOSE raw \in valid :
                    raw.additionalSymptoms = "" /\ raw.medicationsGiven = <<>>
    IN valid \cup
       {[base EXCEPT !.date = NoDate],
        [base EXCEPT !.sugarLevel = ""],
        [base EXCEPT !.sugarLevel = "0"],
        [base EXCEPT !.sugarLevel = "501"],
        [base EXCEPT !.symptoms = <<>>],
        [base EXCEPT !.medicationsGiven = <<[name |-> "", dose |-> "1"]>>],
        [base EXCEPT !.medicationsGiven = <<[name |-> "Glucagon", dose |-> "0"]>>],
        [base EXCEPT !.medicationsGiven = <<[name |-> "Glucagon", dose |-> "101"]>>]}

MedicationInvalid(m) == m.name = "" \/ ~ZNumber(Preprocess(m.dose), 1, 1000)

EmergencyFormErrors_SugarUnchecked(raw) ==
    (IF raw.date = NoDate THEN {"date"} ELSE {})
    \cup (IF Len(raw.symptoms) < 1 THEN {"symptoms"} ELSE {})
    \cup (IF \E i \in 1..Len(raw.medicationsGiven) : MedicationInvalid(raw.medicationsGiven[i])
          THEN {"medicationsGiven"} ELSE {})

\* zodResolver(emergencyFormSchema): the fields that fail
EmergencyFormErrors(raw) ==
    (IF raw.date = NoDate THEN {"date"} ELSE {})
    \cup (IF ~ZNumber(Preprocess(raw.sugarLevel), 10, 5000) THEN {"sugarLevel"} ELSE {})
    \cup (IF Len(raw.symptoms) < 1 THEN {"symptoms"} ELSE {})
    \cup (IF \E i \in 1..Len(raw.medicationsGiven) : MedicationInvalid(raw.medicationsGiven[i])
          THEN {"medicationsGiven"} ELSE {})

\* the parsed output of the schema, which handleSubmit hands to the handler
ParseEmergency(raw) ==
    [raw EXCEPT !.sugarLevel = Preprocess(raw.sugarLevel).n,
                !.medicationsGiven = [i \in 1..Len(raw.medicationsGiven) |->
                    [name |-> raw.medicationsGiven[i].name,
                     dose |-> Preprocess(raw.medicationsGiven[i].dose).n]]]

\* the bundle is loaded: import.meta.env is fixed from here on
LoadBundle(c) ==
    /\ ePc = "unloaded"
    /\ ePc' = "idle"
    /\ cfg' = c
    /\ UNCHANGED <<auth, values, events, medRows, data, payload, posts, emergency,
                   toasts, loading, isEmergencyLoading, formResets, calls, clock, submissions>>
    /\ UNCHANGED <<rvars, formErrors, dvars, pvars, avars, mvars, tvars>>

\* onEmergencySubmit(values) up to the insert of createEmergency
Submit(a, v) ==
    /\ ePc = "idle"
    /\ submissions < MaxSubmissions
    /\ submissions' = submissions + 1
    /\ auth' = a
    /\ values' = v
    /\ data' = Null
    /\ payload' = NoPayload
    /\ UNCHANGED <<cfg, events, medRows, clock>>
    /\ UNCHANGED <<rvars, dvars, pvars, avars, mvars, tvars>>
    /\ IF a.isDemo
       THEN /\ toasts' = <<Success("Demo mode: Emergency report not submitted")>>
            /\ posts' = <<>>
            /\ emergency' = NotReturned
            /\ formResets' = 0
            /\ calls' = <<>>
            /\ UNCHANGED <<ePc, loading, isEmergencyLoading>>
       ELSE IF a.profileUser = NoUser
       THEN /\ toasts' = <<Error("Please log in to save emergency reports")>>
            /\ posts' = <<>>
            /\ emergency' = NotReturned
            /\ formResets' = 0
            /\ calls' = <<>>
            /\ UNCHANGED <<ePc, loading, isEmergencyLoading>>
       ELSE IF a.user = NoUser
       THEN /\ emergency' = Null
            /\ ePc' = "idle"
            /\ posts' = <<>>
            /\ isEmergencyLoading' = FALSE
            /\ toasts' = <<Error("Please log in to save emergency reports"),
                    Error("Failed to save emergency report. Please check your connection and try again.")>>
            /\ formResets' = 0
            /\ calls' = <<>>
            /\ UNCHANGED loading
       ELSE /\ isEmergencyLoading' = TRUE
            /\ loading' = TRUE
            /\ ePc' = "insert"
            /\ toasts' = <<>>
            /\ posts' = <<>>
            /\ emergency' = NotReturned
            /\ formResets' = 0
            /\ calls' = <<EventInsertCall(a.user)>>

\* emergencyForm.handleSubmit(onEmergencySubmit): the resolver runs first
\* and the handler is called with the parsed values only when no field
\* fails; the records kept per submission start afresh either way
HandleSubmit(a, raw) ==
    /\ ePc = "idle"
    /\ submissions < MaxSubmissions
    /\ IF EmergencyFormErrors(raw) = {}
       THEN /\ formErrors' = {}
            /\ Submit(a, ParseEmergency(raw))
       ELSE /\ formErrors' = EmergencyFormErrors(raw)
            /\ submissions' = submissions + 1
            /\ auth' = a
            /\ values' = NoValues
            /\ data' = Null
            /\ payload' = NoPayload
            /\ posts' = <<>>
            /\ emergency' = NotReturned
            /\ toasts' = <<>>
            /\ formResets' = 0
            /\ calls' = <<>>
            /\ UNCHANGED <<ePc, cfg, events, medRows, loading, isEmergencyLoading, clock>>
            /\ UNCHANGED <<rvars, dvars, pvars, avars, mvars, tvars>>

InsertOutcomes == {"ok", "OFFLINE_MODE", "Network", "malformed array literal",
                   "other", "threw Offline mode", "threw"}

InsertErrorToast(o) ==
    CASE o = "OFFLINE_MODE" ->
            Error("Application is in offline mode. Please check your internet connection.")
      [] o = "Network" -> Error("Network error. Please check your connection and try again.")
      [] o = "malformed array literal" -> Error("Database error: Array formatting issue.")
      [] o = "other" -> Error("Failed to save emergency report: message")
      [] o = "threw Offline mode" ->
              Error("Application is in offline mode. Please configure your Supabase connection.")
      [] OTHER -> Error("Failed to save emergency report: Unknown error")

NewId == Cardinality(events) + 1

\* await supabase.from('emergency_events').insert(..).select().single()
\* settles; on success the webhook block starts
InsertSettles(o) ==
    /\ ePc = "insert"
    /\ UNCHANGED <<cfg, auth, values, medRows, clock, submissions>>
    /\ UNCHANGED <<rvars, formErrors, dvars, pvars, avars, mvars, tvars>>
    /\ IF o = "ok"
       THEN LET row == Row(NewId, auth.user, EmergencyData(values)) IN
            /\ events' = events \cup {row}
            /\ data' = row
            /\ IF cfg.vite
               THEN /\ payload' = WebhookPayload(row, clock)
                    /\ posts' = <<FirstAttempt(ViteUrl, payload')>>
                    /\ ePc' = "post1"
                    /\ UNCHANGED <<emergency, toasts, loading, isEmergencyLoading,
                                   formResets, calls>>
               ELSE /\ UNCHANGED payload
                    /\ CreateReturns(auth, values, row, Append(toasts, ReportSaved), posts)
       ELSE /\ UNCHANGED <<events, data, payload>>
            /\ CreateReturns(auth, values, Null, Append(toasts, InsertErrorToast(o)), posts)

\* the catch block around the webhook call: warn, then the success path
WebhookCatch(ps) ==
    CreateReturns(auth, values, data,
                  Append(Append(toasts, WebhookWarning), ReportSaved), ps)

AfterPostToWebhook_FailureReturnsNull(ps, status) ==
    IF ~ResponseOk(status)
    THEN CreateReturns(auth, values, Null, Append(toasts, WebhookWarning), ps)
    ELSE IF cfg.dev
    THEN /\ ePc' = "text"
         /\ posts' = ps
         /\ UNCHANGED <<emergency, toasts, loading, isEmergencyLoading, formResets, calls>>
    ELSE CreateReturns(auth, values, data, Append(toasts, ReportSaved), ps)

\* createEmergency after postToWebhook has returned a response
AfterPostToWebhook(ps, status) ==
    IF ~ResponseOk(status)
    THEN CreateReturns(auth, values, data,
                       Append(Append(toasts, WebhookWarning), ReportSaved), ps)
    ELSE IF cfg.dev
    THEN /\ ePc' = "text"
         /\ posts' = ps
         /\ UNCHANGED <<emergency, toasts, loading, isEmergencyLoading, formResets, calls>>
    ELSE CreateReturns(auth, values, data, Append(toasts, ReportSaved), ps)

\* postToWebhook: the first fetch resolves; `if (!response.ok)` starts the
\* one-second wait before the retry
Post1Resolves(status) ==
    /\ ePc = "post1"
    /\ UNCHANGED <<cfg, auth, values, events, medRows, data, payload, clock, submissions>>
    /\ UNCHANGED <<rvars, formErrors, dvars, pvars, avars, mvars, tvars>>
    /\ LET ps == Settled(posts, 1, "resolved", status) IN
       IF ~ResponseOk(status)
       THEN /\ ePc' = "delay"
            /\ posts' = ps
            /\ UNCHANGED <<emergency, toasts, loading, isEmergencyLoading, formResets, calls>>
       ELSE AfterPostToWebhook(ps, status)

\* postToWebhook: the first fetch rejects; the rejection leaves
\* postToWebhook and is caught by the caller
Post1Rejects ==
    /\ ePc = "post1"
    /\ UNCHANGED <<cfg, auth, values, events, medRows, data, payload, clock, submissions>>
    /\ UNCHANGED <<rvars, formErrors, dvars, pvars, avars, mvars, tvars>>
    /\ WebhookCatch(Settled(posts, 1, "rejected", 0))

\* the timer of the retry fires and the second fetch is issued
DelayElapses ==
    /\ ePc = "delay"
    /\ clock' = clock + 1
    /\ posts' = Append(posts, RetryAttempt(ViteUrl, payload))
    /\ ePc' = "post2"
    /\ UNCHANGED <<cfg, auth, values, events, medRows, data, payload, emergency,
                   toasts, loading, isEmergencyLoading, formResets, calls, submissions>>
    /\ UNCHANGED <<rvars, formErrors, dvars, pvars, avars, mvars, tvars>>

\* postToWebhook: the second fetch resolves and its response is returned
Post2Resolves(status) ==
    /\ ePc = "post2"
    /\ UNCHANGED <<cfg, auth, values, events, medRows, data, payload, clock, submissions>>
    /\ UNCHANGED <<rvars, formErrors, dvars, pvars, avars, mvars, tvars>>
    /\ AfterPostToWebhook(Settled(posts, 2, "resolved", status), status)

\* postToWebhook: the second fetch rejects
Post2Rejects ==
    /\ ePc = "post2"
    /\ UNCHANGED <<cfg, auth, values, events, medRows, data, payload, clock, submissions>>
    /\ UNCHANGED <<rvars, formErrors, dvars, pvars, avars, mvars, tvars>>
    /\ WebhookCatch(Settled(posts, 2, "rejected", 0))

\* development build only: await response.text() settles
TextSettles(ok) ==
    /\ ePc = "text"
    /\ UNCHANGED <<cfg, auth, values, events, medRows, data, payload, clock, submissions>>
    /\ UNCHANGED <<rvars, formErrors, dvars, pvars, avars, mvars, tvars>>
    /\ LET ps == [posts EXCEPT ![Len(posts)].textRead = IF ok THEN "ok" ELSE "failed"] IN
       IF ok THEN CreateReturns(auth, values, data, Append(toasts, ReportSaved), ps)
             ELSE WebhookCatch(ps)

\* the destination never answers a pending fetch; no timeout is set on it
PostStalls ==
    /\ ePc \in {"post1", "post2", "formsPost"}
    /\ posts' = Settled(posts, Len(posts), "stalled", 0)
    /\ ePc' = "stalled"
    /\ UNCHANGED <<cfg, auth, values, events, medRows, data, payload, emergency,
                   toasts, loading, isEmergencyLoading, formResets, calls, clock, submissions>>
    /\ UNCHANGED <<rvars, formErrors, dvars, pvars, avars, mvars, tvars>>

MedicationData(eventId, medications) ==
    {[event_id |-> eventId, med_name |-> medications[i].name,
      dose |-> medications[i].dose] : i \in 1..Len(medications)}

MedsOutcomes == {"ok", "error", "threw"}

MedsSettles_Rollback(o) ==
    /\ ePc = "meds"
    /\ UNCHANGED <<cfg, auth, values, data, payload, emergency, loading,
                   clock, submissions>>
    /\ UNCHANGED <<rvars, formErrors, dvars, pvars, avars, mvars, tvars>>
    /\ events' = IF o = "ok" THEN events ELSE events \ {emergency}
    /\ medRows' = IF o = "ok"
                  THEN medRows \cup MedicationData(emergency.id, KeptMedications(values))
                  ELSE medRows
    /\ FormsWebhook(auth, emergency,
                    CASE o = "ok" -> toasts
                      [] o = "error" -> Append(toasts, MedsFailed)
                      [] OTHER -> Append(toasts, MedsThrew),
                    posts)

\* saveMedications: the insert into emergency_medications settles
MedsSettles(o) ==
    /\ ePc = "meds"
    /\ UNCHANGED <<cfg, auth, values, events, data, payload, emergency, loading,
                   clock, submissions>>
    /\ UNCHANGED <<rvars, formErrors, dvars, pvars, avars, mvars, tvars>>
    /\ medRows' = IF o = "ok"
                  THEN medRows \cup MedicationData(emergency.id, KeptMedications(values))
                  ELSE medRows
    /\ FormsWebhook(auth, emergency,
                    CASE o = "ok" -> toasts
                      [] o = "error" -> Append(toasts, MedsFailed)
                      [] OTHER -> Append(toasts, MedsThrew),
                    posts)

\* Forms: its own fetch settles; the response is not looked at
FormsPostSettles(state, status) ==
    /\ ePc = "formsPost"
    /\ UNCHANGED <<cfg, auth, values, events, medRows, data, payload, emergency,
                   loading, clock, submissions>>
    /\ UNCHANGED <<rvars, formErrors, dvars, pvars, avars, mvars, tvars>>
    /\ FormsFinish(emergency, toasts, Settled(posts, Len(posts), state, status))

EmergencyInit ==
    /\ ePc = "unloaded"
    /\ cfg = NoConfig
    /\ auth = NoAuth
    /\ values = NoValues
    /\ events = {}
    /\ medRows = {}
    /\ data = Null
    /\ payload = NoPayload
    /\ posts = <<>>
    /\ emergency = NotReturned
    /\ toasts = <<>>
    /\ loading = FALSE
    /\ isEmergencyLoading = FALSE
    /\ formResets = 0
    /\ clock = 0
    /\ submissions = 0
    /\ calls = <<>>
    /\ formErrors = {}

\* the steps the store, the timer and an answering destination take
EmergencyProgress ==
    \/ \E o \in InsertOutcomes : InsertSettles(o)
    \/ \E st \in WebhookStatuses : Post1Resolves(st)
    \/ Post1Rejects
    \/ DelayElapses
    \/ \E st \in WebhookStatuses : Post2Resolves(st)
    \/ Post2Rejects
    \/ \E ok \in BOOLEAN : TextSettles(ok)
    \/ \E o \in MedsOutcomes : MedsSettles(o)
    \/ \E st \in WebhookStatuses : FormsPostSettles("resolved", st)
    \/ FormsPostSettles("rejected", 0)

EmergencyNext ==
    \/ \E c \in Configs : LoadBundle(c)
    \/ \E a \in AuthStates, raw \in RawFormValues : HandleSubmit(a, raw)
    \/ EmergencyProgress
    \/ PostStalls

----------------------------------------------------------------------------
(* The browser: the daily reading form of Forms, in two tabs of one        *)
(* browser, with useDatabase.getDailyReadings and createDailyReading and  *)
(* the store table daily_readings.                                         *)

Tabs == {1, 2}

\* the sessions a tab is opened with: signed in, signed in to a demo
\* profile, signed out, and signed out with the profile still held
TabSessions ==
    {a \in AuthStates : /\ a.user = NoUser => ~a.isDemo
                        /\ a.profileUser = NoUser => a.user = NoUser}

ReadingNotSaved == Error("Failed to save reading. Please check your connection and try again.")

\* what the user may have typed into the reading form: values that pass
\* the schema, and values that each break one of its rules
RawReadings ==
    LET valid ==
            {[date |-> Date(2025, 9, 10), morningSugar |-> "45", nightSugar |-> "100",
              morningDose |-> "1", nightDose |-> "0", notes |-> "after meal"],
             [date |-> Date(2025, 9, 10), morningSugar |-> "100", nightSugar |-> "45",
              morningDose |-> "0", nightDose |-> "1", notes |-> ""],
             [date |-> Date(2025, 10, 9), morningSugar |-> "45", nightSugar |-> "45",
              morningDose |-> "1", nightDose |-> "1", notes |-> ""]}
        base == CHOOSE raw \in valid : raw.date = Date(2025, 10, 9)
    IN valid \cup
       {[base EXCEPT !.date = NoDate],
        [base EXCEPT !.morningSugar = ""],
        [base EXCEPT !.nightSugar = "501"],
        [base EXCEPT !.nightDose = "101"]}
NoReading == [date |-> NoDate, morningSugar |-> 0, nightSugar |-> 0,
              morningDose |-> 0, nightDose |-> 0, notes |-> ""]

\* zodResolver(readingFormSchema): the fields that fail
ReadingFormErrors(raw) ==
    (IF raw.date = NoDate THEN {"date"} ELSE {})
    \cup (IF ~ZNumber(Preprocess(raw.morningSugar), 10, 5000) THEN {"morningSugar"} ELSE {})
    \cup (IF ~ZNumber(Preprocess(raw.nightSugar), 10, 5000) THEN {"nightSugar"} ELSE {})
    \cup (IF ~ZNumber(Preprocess(raw.morningDose), 0, 1000) THEN {"morningDose"} ELSE {})
    \cup (IF ~ZNumber(Preprocess(raw.nightDose), 0, 1000) THEN {"nightDose"} ELSE {})

\* the parsed output of the schema
ParseReading(raw) ==
    [raw EXCEPT !.morningSugar = Preprocess(raw.morningSugar).n,
                !.nightSugar = Preprocess(raw.nightSugar).n,
                !.morningDose = Preprocess(raw.morningDose).n,
                !.nightDose = Preprocess(raw.nightDose).n]

\* Forms: readingData
ReadingData(v) ==
    [date |-> Format(v.date), sugar_morning |-> v.morningSugar,
     sugar_night |-> v.nightSugar, insulin_morning |-> v.morningDose,
     insulin_night |-> v.nightDose,
     notes |-> IF Truthy(v.notes) THEN v.notes ELSE "null"]

\* createDailyReading: the object handed to upsert
UpsertRow(reading, user, now) ==
    [date |-> reading.date, sugar_morning |-> reading.sugar_morning,
     sugar_night |-> reading.sugar_night, insulin_morning |-> reading.insulin_morning,
     insulin_night |-> reading.insulin_night, notes |-> reading.notes,
     user_id |-> user, edited_date |-> now]
NoRow == UpsertRow(ReadingData(NoReading), NoUser, -1)

\* a createDailyReading call as the page made it: whether the date was on
\* file for the user then, and whether the user had confirmed the overwrite
ReadingCall(reading, user, onFile, confirmed) ==
    [reading |-> reading, user_id |-> user, onFile |-> onFile, confirmed |-> confirmed]

SameKey(r, w) == r.user_id = w.user_id /\ r.fields.date = w.date

Upsert_PlainInsert(rows, w) ==
    rows \cup {Row(Cardinality(rows) + 1, w.user_id, w)}

Upsert_KeepNotes(rows, w) ==
    LET old == {r \in rows : SameKey(r, w)}
    IN IF old = {}
       THEN rows \cup {Row(Cardinality(rows) + 1, w.user_id, w)}
       ELSE (rows \ old) \cup
            {Row(r.id, w.user_id,
                 IF w.notes = "null" THEN [w EXCEPT !.notes = r.fields.notes] ELSE w) :
                r \in old}

\* the store: insert .. on conflict (user_id, date) do update set every
\* column of the object; the row keeps its id
Upsert(rows, w) ==
    LET old == {r \in rows : SameKey(r, w)}
    IN IF old = {}
       THEN rows \cup {Row(Cardinality(rows) + 1, w.user_id, w)}
       ELSE (rows \ old) \cup {Row(r.id, w.user_id, w) : r \in old}

\* .order('date', { ascending: false })
RECURSIVE OrderDesc(_)
OrderDesc(rows) ==
    LET DateKey(date) == date.y * 10000 + date.m * 100 + date.d
        KeyOf(str) == DateKey(CHOOSE d \in {raw.date : raw \in RawReadings} :
                                  Format(d) = str)
    IN IF rows = {} THEN <<>>
       ELSE LET first == CHOOSE r \in rows :
                             \A q \in rows : KeyOf(q.fields.date) <= KeyOf(r.fields.date)
            IN <<first>> \o OrderDesc(rows \ {first})

\* .eq('user_id', user.id)
SelectReadings(rows, user) == OrderDesc({r \in rows : r.user_id = user})

Includes(seq, x) == \E i \in 1..Len(seq) : seq[i] = x

\* the page mounts with the session a; the effect starts fetchExistingDates
\* unless the profile is a demo profile; without a user getDailyReadings
\* throws and the effect logs the error
Mount(t, a) ==
    /\ dPc[t] = "unmounted"
    /\ dPc' = [dPc EXCEPT ![t] = "idle"]
    /\ dAuth' = [dAuth EXCEPT ![t] = a]
    /\ IF a.isDemo
       THEN UNCHANGED <<dLoad, dLoading>>
       ELSE IF a.user = NoUser
       THEN /\ dLoad' = [dLoad EXCEPT ![t] = "threw"]
            /\ UNCHANGED dLoading
       ELSE /\ dLoad' = [dLoad EXCEPT ![t] = "pending"]
            /\ dLoading' = [dLoading EXCEPT ![t] = TRUE]
    /\ UNCHANGED <<existingDates, showDuplicateDialog, pendingReadingData,
                   isReadingLoading, dReq, readings, dToasts, dCalls, dErrors, applied,
                   dialogChoice>>
    /\ UNCHANGED <<rvars, evars, pvars, avars, mvars, tvars>>

\* getDailyReadings: the select settles and the effect sets existingDates
LoadSettles(t, ok) ==
    /\ dLoad[t] = "pending"
    /\ dLoad' = [dLoad EXCEPT ![t] = IF ok THEN "done" ELSE "failed"]
    /\ dLoading' = [dLoading EXCEPT ![t] = FALSE]
    /\ dToasts' = [dToasts EXCEPT ![t] = IF ok THEN @ ELSE Append(@,
            Error("Failed to load daily readings"))]
    /\ existingDates' = [existingDates EXCEPT ![t] =
          IF ok
          THEN [i \in 1..Len(SelectReadings(readings, dAuth[t].user)) |->
                   SelectReadings(readings, dAuth[t].user)[i].fields.date]
          ELSE <<>>]
    /\ UNCHANGED <<dPc, dAuth, showDuplicateDialog, pendingReadingData,
                   isReadingLoading, dReq, readings, dCalls, dErrors, applied,
                   dialogChoice>>
    /\ UNCHANGED <<rvars, evars, pvars, avars, mvars, tvars>>

\* onReadingSubmit(values) up to the upsert of createDailyReading
OnReadingSubmit(t, v, confirmed) ==
    LET a == dAuth[t]
        call == ReadingCall(ReadingData(v), a.user,
                            \E r \in readings : r.user_id = a.user
                                                /\ r.fields.date = Format(v.date),
                            confirmed)
    IN
    /\ showDuplicateDialog' = [showDuplicateDialog EXCEPT ![t] = FALSE]
    /\ UNCHANGED <<dAuth, dLoad, existingDates, readings, applied>>
    /\ UNCHANGED <<rvars, eOwn, pvars, avars, mvars, tvars>>
    /\ IF a.isDemo
       THEN /\ dToasts' = [dToasts EXCEPT ![t] = <<
               Success("Demo mode: Changes not saved to database")>>]
            /\ dCalls' = [dCalls EXCEPT ![t] = <<>>]
            /\ UNCHANGED <<dPc, pendingReadingData, isReadingLoading, dReq, dLoading, clock>>
       ELSE IF a.profileUser = NoUser
       THEN /\ dToasts' = [dToasts EXCEPT ![t] = <<Error("Please log in to save readings")>>]
            /\ dCalls' = [dCalls EXCEPT ![t] = <<>>]
            /\ UNCHANGED <<dPc, pendingReadingData, isReadingLoading, dReq, dLoading, clock>>
       ELSE IF a.user = NoUser
       THEN /\ dToasts' = [dToasts EXCEPT ![t] = <<
               Error("Please log in to save readings"), ReadingNotSaved>>]
            /\ dCalls' = [dCalls EXCEPT ![t] = <<call>>]
            /\ isReadingLoading' = [isReadingLoading EXCEPT ![t] = FALSE]
            /\ pendingReadingData' = [pendingReadingData EXCEPT ![t] = NoReading]
            /\ UNCHANGED <<dPc, dReq, dLoading, clock>>
       ELSE /\ dToasts' = [dToasts EXCEPT ![t] = <<>>]
            /\ dCalls' = [dCalls EXCEPT ![t] = <<call>>]
            /\ isReadingLoading' = [isReadingLoading EXCEPT ![t] = TRUE]
            /\ dLoading' = [dLoading EXCEPT ![t] = TRUE]
            /\ dReq' = [dReq EXCEPT ![t] = UpsertRow(ReadingData(v), a.user, clock)]
            /\ dPc' = [dPc EXCEPT ![t] = "upsert"]
            /\ clock' = clock + 1
            /\ UNCHANGED pendingReadingData

\* readingForm.handleSubmit(handleReadingSubmit): the resolver runs first;
\* handleReadingSubmit opens the dialog when the date is in existingDates
\* and calls onReadingSubmit otherwise
HandleReadingSubmit(t, raw) ==
    /\ dPc[t] = "idle"
    /\ ~isReadingLoading[t]
    /\ ~showDuplicateDialog[t]
    /\ submissions < MaxSubmissions
    /\ submissions' = submissions + 1
    /\ dialogChoice' = [dialogChoice EXCEPT ![t] = "none"]
    /\ dErrors' = [dErrors EXCEPT ![t] = ReadingFormErrors(raw)]
    /\ IF ReadingFormErrors(raw) # {}
       THEN /\ dToasts' = [dToasts EXCEPT ![t] = <<>>]
            /\ dCalls' = [dCalls EXCEPT ![t] = <<>>]
            /\ UNCHANGED <<dPc, dAuth, dLoad, existingDates, showDuplicateDialog,
                           pendingReadingData, isReadingLoading, dReq, readings,
                           applied, dLoading, clock>>
            /\ UNCHANGED <<rvars, eOwn, pvars, avars, mvars, tvars>>
       ELSE IF Includes(existingDates[t], Format(ParseReading(raw).date))
       THEN /\ pendingReadingData' = [pendingReadingData EXCEPT ![t] = ParseReading(raw)]
            /\ showDuplicateDialog' = [showDuplicateDialog EXCEPT ![t] = TRUE]
            /\ dToasts' = [dToasts EXCEPT ![t] = <<>>]
            /\ dCalls' = [dCalls EXCEPT ![t] = <<>>]
            /\ UNCHANGED <<dPc, dAuth, dLoad, existingDates, isReadingLoading, dReq,
                           readings, applied, dLoading, clock>>
            /\ UNCHANGED <<rvars, eOwn, pvars, avars, mvars, tvars>>
       ELSE OnReadingSubmit(t, ParseReading(raw), FALSE)

\* Continue in the duplicate-date dialog; the dialog closes on the click
ContinueOverwrite(t) ==
    /\ showDuplicateDialog[t]
    /\ dialogChoice' = [dialogChoice EXCEPT ![t] = "continue"]
    /\ UNCHANGED <<submissions, dErrors>>
    /\ IF pendingReadingData[t] # NoReading
       THEN OnReadingSubmit(t, pendingReadingData[t], TRUE)
       ELSE /\ showDuplicateDialog' = [showDuplicateDialog EXCEPT ![t] = FALSE]
            /\ UNCHANGED <<dPc, dAuth, dLoad, existingDates, pendingReadingData,
                           isReadingLoading, dReq, readings, dToasts, dCalls,
                           applied, dLoading, clock>>
            /\ UNCHANGED <<rvars, eOwn, pvars, avars, mvars, tvars>>

CancelOverwrite_Submits(t) ==
    /\ showDuplicateDialog[t]
    /\ pendingReadingData[t] # NoReading
    /\ dialogChoice' = [dialogChoice EXCEPT ![t] = "cancel"]
    /\ UNCHANGED <<submissions, dErrors>>
    /\ OnReadingSubmit(t, pendingReadingData[t], TRUE)

\* Cancel in the duplicate-date dialog
CancelOverwrite(t) ==
    /\ showDuplicateDialog[t]
    /\ showDuplicateDialog' = [showDuplicateDialog EXCEPT ![t] = FALSE]
    /\ dialogChoice' = [dialogChoice EXCEPT ![t] = "cancel"]
    /\ UNCHANGED <<dPc, dAuth, dLoad, existingDates, pendingReadingData,
                   isReadingLoading, dReq, readings, dToasts, dCalls, dErrors,
                   applied, dLoading>>
    /\ UNCHANGED <<rvars, evars, pvars, avars, mvars, tvars>>

\* "lost": the store applied the upsert and the answer did not arrive
\* createDailyReading: the upsert settles, and onReadingSubmit runs to its end
UpsertSettles(t, o) ==
    /\ dPc[t] = "upsert"
    /\ dPc' = [dPc EXCEPT ![t] = "idle"]
    /\ readings' = IF o \in {"ok", "lost"} THEN Upsert(readings, dReq[t]) ELSE readings
    /\ applied' = IF o \in {"ok", "lost"} THEN Append(applied, dReq[t]) ELSE applied
    /\ dToasts' = [dToasts EXCEPT ![t] =
          CASE o = "ok" -> Append(@, Success("Daily reading saved successfully"))
            [] o = "error" -> @ \o <<Error("Database error: "), ReadingNotSaved>>
            [] OTHER -> @ \o <<
                    Error("Failed to save daily reading. Please try again."), ReadingNotSaved>>]
    /\ existingDates' = [existingDates EXCEPT ![t] =
          IF o = "ok" THEN Append(@, dReq[t].date) ELSE @]
    /\ dReq' = [dReq EXCEPT ![t] = NoRow]
    /\ dLoading' = [dLoading EXCEPT ![t] = FALSE]
    /\ isReadingLoading' = [isReadingLoading EXCEPT ![t] = FALSE]
    /\ showDuplicateDialog' = [showDuplicateDialog EXCEPT ![t] = FALSE]
    /\ pendingReadingData' = [pendingReadingData EXCEPT ![t] = NoReading]
    /\ UNCHANGED <<dAuth, dLoad, dCalls, dErrors, dialogChoice>>
    /\ UNCHANGED <<rvars, evars, pvars, avars, mvars, tvars>>

ReadingInit ==
    /\ dPc = [t \in Tabs |-> "unmounted"]
    /\ dAuth = [t \in Tabs |-> NoAuth]
    /\ dLoad = [t \in Tabs |-> "none"]
    /\ dLoading = [t \in Tabs |-> FALSE]
    /\ existingDates = [t \in Tabs |-> <<>>]
    /\ showDuplicateDialog = [t \in Tabs |-> FALSE]
    /\ pendingReadingData = [t \in Tabs |-> NoReading]
    /\ isReadingLoading = [t \in Tabs |-> FALSE]
    /\ dReq = [t \in Tabs |-> NoRow]
    /\ readings = {}
    /\ dToasts = [t \in Tabs |-> <<>>]
    /\ dCalls = [t \in Tabs |-> <<>>]
    /\ dErrors = [t \in Tabs |-> {}]
    /\ applied = <<>>
    /\ dialogChoice = [t \in Tabs |-> "none"]

ReadingNext ==
    \E t \in Tabs :
        \/ \E a \in TabSessions : Mount(t, a)
        \/ \E ok \in BOOLEAN : LoadSettles(t, ok)
        \/ \E raw \in RawReadings : HandleReadingSubmit(t, raw)
        \/ ContinueOverwrite(t)
        \/ CancelOverwrite(t)
        \/ \E o \in {"ok", "error", "threw", "lost"} : UpsertSettles(t, o)

----------------------------------------------------------------------------
(* The browser: the Profile page with AuthContext.updateProfile,           *)
(* fetchProfile and changePassword, and the store table profiles.  A text  *)
(* is the sequence of its characters.                                      *)

MaxEdits == 3

NoIndex == -1

\* String.prototype.split(c)
RECURSIVE SplitOn(_, _)
SplitOn(text, c) ==
    IF \A i \in 1..Len(text) : text[i] # c
    THEN <<text>>
    ELSE LET k == CHOOSE i \in 1..Len(text) :
                      text[i] = c /\ \A j \in 1..(i - 1) : text[j] # c
         IN <<SubSeq(text, 1, k - 1)>> \o SplitOn(SubSeq(text, k + 1, Len(text)), c)

\* String.prototype.trim()
RECURSIVE Trim(_)
Trim(text) ==
    IF text = <<>> THEN text
    ELSE IF text[1] = " " THEN Trim(Tail(text))
    ELSE IF text[Len(text)] = " " THEN Trim(SubSeq(text, 1, Len(text) - 1))
    ELSE text

\* `${a}:${b}`
Template(a, b) == a \o <<":">> \o b

\* z.string().email(): a local part of letters and single inner dots, one
\* "@", and a domain of dot-separated labels of letters, the last of two
\* letters or more
IsEmail(text) ==
    LET Letters == {"a", "b", "c", "l", "m", "o", "A"}
        parts == SplitOn(text, "@")
        local == parts[1]
        labels == SplitOn(parts[2], ".")
    IN /\ Len(parts) = 2
       /\ Len(local) >= 1
       /\ \A i \in 1..Len(local) : local[i] \in Letters \cup {"."}
       /\ local[1] # "." /\ local[Len(local)] # "."
       /\ \A i \in 1..(Len(local) - 1) : ~(local[i] = "." /\ local[i + 1] = ".")
       /\ Len(labels) >= 2
       /\ \A i \in 1..Len(labels) :
             Len(labels[i]) >= 1 /\ \A j \in 1..Len(labels[i]) : labels[i][j] \in Letters
       /\ Len(labels[Len(labels)]) >= 2

\* parseTelegramIds
ParseTelegramIds(ids) ==
    [i \in 1..Len(ids) |->
        LET parts == SplitOn(ids[i], ":")
        IN [handle |-> parts[1], label |-> IF Len(parts) >= 2 THEN parts[2] ELSE <<>>]]

\* parseSecondaryEmails
ParseSecondaryEmails(items) ==
    [i \in 1..Len(items) |->
        LET parts == SplitOn(items[i], ":")
        IN [name |-> SplitOn(parts[1], "@")[1], email |-> parts[1],
            relationship |-> IF Len(parts) >= 2 THEN parts[2] ELSE <<>>]]

\* values.telegramIds.map(..).filter(Boolean)
FormatTelegramIds(items) ==
    LET mapped == [i \in 1..Len(items) |->
                      IF items[i].handle # <<>>
                      THEN Template(items[i].handle, items[i].label) ELSE <<>>]
    IN SelectSeq(mapped, LAMBDA x : x # <<>>)

\* values.secondaryEmails.filter(..).map(..)
FormatSecondaryEmails(items) ==
    LET kept == SelectSeq(items, LAMBDA x : x.email # <<>> /\ Trim(x.email) # <<>>)
    IN [i \in 1..Len(kept) |-> Template(kept[i].email, kept[i].relationship)]

\* a row of profiles, and the absent profile
ProfileRow(user, demo, name, telegram, emails) ==
    [user_id |-> user, is_demo |-> demo, full_name |-> name,
     telegram_ids |-> telegram, secondary_emails |-> emails]
NoProfile == ProfileRow(NoUser, FALSE, <<>>, <<>>, <<>>)

ValidEmail == <<"a", "@", "b", ".", "c", "o">>

\* what the store may hold for the user when the page mounts
StoredProfiles ==
    {ProfileRow("u1", demo, <<"A", "l">>, <<>>, <<>>) : demo \in BOOLEAN}
    \cup {ProfileRow("u1", demo, <<"A", "l">>, <<Template(<<"a">>, <<"m">>)>>,
                     <<Template(ValidEmail, <<"m">>)>>) : demo \in BOOLEAN}

\* what the user may type into the password form
PasswordValues ==
    LET good == <<"s", "e", "c", "r", "e", "t">>
    IN [currentPassword : {good}, newPassword : {good, <<"s">>},
        confirmPassword : {good, good \o <<"s">>}]

\* the values the profile form is reset to
FormOf(p) ==
    [full_name |-> p.full_name,
     telegramIds |-> ParseTelegramIds(p.telegram_ids),
     secondaryEmails |-> ParseSecondaryEmails(p.secondary_emails)]

\* zodResolver(profileFormSchema): the fields that fail
ProfileFormErrors(form) ==
    (IF Len(form.full_name) < 2 THEN {<<"full_name", 0>>} ELSE {})
    \cup {<<"telegramIds.handle", i - 1>> : i \in
              {j \in 1..Len(form.telegramIds) : Len(form.telegramIds[j].handle) < 1}}
    \cup {<<"secondaryEmails.name", i - 1>> : i \in
              {j \in 1..Len(form.secondaryEmails) : Len(form.secondaryEmails[j].name) < 2}}
    \cup {<<"secondaryEmails.email", i - 1>> : i \in
              {j \in 1..Len(form.secondaryEmails) : ~IsEmail(form.secondaryEmails[j].email)}}

\* zodResolver(passwordFormSchema)
PasswordFormErrors(pw) ==
    (IF Len(pw.currentPassword) < 6 THEN {"currentPassword"} ELSE {})
    \cup (IF Len(pw.newPassword) < 6 THEN {"newPassword"} ELSE {})
    \cup (IF Len(pw.confirmPassword) < 6 \/ pw.newPassword # pw.confirmPassword
          THEN {"confirmPassword"} ELSE {})

\* the argument of updateProfile: the columns it names and their values
Updates(cols, name, telegram, emails) ==
    [cols |-> cols, full_name |-> name, telegram_ids |-> telegram,
     secondary_emails |-> emails]
NoUpdate == [source |-> "none", updates |-> Updates({}, <<>>, <<>>, <<>>)]

ProfileUpdates(form) ==
    Updates({"full_name", "telegram_ids", "secondary_emails"}, form.full_name,
            FormatTelegramIds(form.telegramIds), FormatSecondaryEmails(form.secondaryEmails))
ContactUpdates(form) ==
    Updates({"telegram_ids", "secondary_emails"}, <<>>,
            FormatTelegramIds(form.telegramIds), FormatSecondaryEmails(form.secondaryEmails))

\* .update(updates).eq('user_id', user.id)
ApplyUpdate(rows, user, u) ==
    {IF r.user_id = user
     THEN [r EXCEPT !.full_name = IF "full_name" \in u.cols THEN u.full_name ELSE @,
                    !.telegram_ids = IF "telegram_ids" \in u.cols THEN u.telegram_ids ELSE @,
                    !.secondary_emails = IF "secondary_emails" \in u.cols
                                         THEN u.secondary_emails ELSE @]
     ELSE r : r \in rows}

\* a write call of the page: updateProfile or changePassword
ProfileCall(fn, user, arg) == [fn |-> fn, user_id |-> user, arg |-> arg]


isDemo == pProfile.is_demo

\* the handler a click reached, or none when the resolver held it back
Handled(name) == [handler |-> name, demo |-> isDemo]
NotHandled == [handler |-> "none", demo |-> FALSE]

\* seq.filter((_, i) => i !== index)
Without(seq, index) ==
    LET kept == SelectSeq([i \in 1..Len(seq) |-> [at |-> i - 1, item |-> seq[i]]],
                          LAMBDA x : x.at # index)
    IN [i \in 1..Len(kept) |-> kept[i].item]

\* the Profile page mounts; the context holds the profile already, or not yet
MountProfile(user, row, loaded) ==
    /\ pPc = "unmounted"
    /\ pPc' = "idle"
    /\ pUser' = user
    /\ profiles' = {row}
    /\ pProfile' = IF loaded /\ user # NoUser THEN row ELSE NoProfile
    /\ pForm' = FormOf(IF loaded /\ user # NoUser THEN row ELSE NoProfile)
    /\ originalFullName' = IF loaded /\ user # NoUser THEN row.full_name ELSE <<>>
    /\ UNCHANGED <<pwPc, editingTelegramId, editingSecondaryEmail, savingContact,
                   isProfileLoading, isPasswordLoading, showNameSaveMessage, pToasts,
                   pCalls, pErrors, pLast, pUpdate, edits>>
    /\ UNCHANGED <<rvars, evars, dvars, avars, mvars, tvars>>

\* the effect on [profile]: profileForm.reset and setOriginalFullName
FormAfterProfile(p) ==
    /\ pForm' = FormOf(p)
    /\ originalFullName' = p.full_name

\* a fetchProfile the provider started delivers the profile
ProfileLoads ==
    /\ pPc # "unmounted"
    /\ pProfile = NoProfile
    /\ pUser # NoUser
    /\ \E r \in profiles : r.user_id = pUser /\ pProfile' = r /\ FormAfterProfile(r)
    /\ UNCHANGED <<pPc, pwPc, pUser, profiles, editingTelegramId, editingSecondaryEmail,
                   savingContact, isProfileLoading, isPasswordLoading,
                   showNameSaveMessage, pToasts, pCalls, pErrors, pLast, pUpdate, edits>>
    /\ UNCHANGED <<rvars, evars, dvars, avars, mvars, tvars>>

\* what an edit of the form leaves alone
EditFrame ==
    /\ edits < MaxEdits
    /\ edits' = edits + 1
    /\ pPc # "unmounted"
    /\ UNCHANGED <<pPc, pwPc, pUser, pProfile, profiles, savingContact, isProfileLoading,
                   isPasswordLoading, pToasts, pCalls, pErrors, pLast, pUpdate>>
    /\ UNCHANGED <<rvars, evars, dvars, avars, mvars, tvars>>

\* handleNameChange
HandleNameChange(name) ==
    /\ EditFrame
    /\ pForm' = [pForm EXCEPT !.full_name = name]
    /\ showNameSaveMessage' = (name # originalFullName)
    /\ UNCHANGED <<editingTelegramId, editingSecondaryEmail, originalFullName>>

\* addTelegramId; the button is disabled in demo mode
AddTelegramId ==
    /\ EditFrame
    /\ ~isDemo
    /\ pForm' = [pForm EXCEPT !.telegramIds = Append(@, [handle |-> <<>>, label |-> <<>>])]
    /\ editingTelegramId' = Len(pForm.telegramIds)
    /\ UNCHANGED <<editingSecondaryEmail, originalFullName, showNameSaveMessage>>

\* removeTelegramId(index); the button of a row not being edited is
\* disabled in demo mode
RemoveTelegramId(index) ==
    /\ EditFrame
    /\ index \in 0..(Len(pForm.telegramIds) - 1)
    /\ editingTelegramId = index \/ ~isDemo
    /\ pForm' = [pForm EXCEPT !.telegramIds = Without(@, index)]
    /\ editingTelegramId' =
          IF editingTelegramId = index THEN NoIndex
          ELSE IF editingTelegramId # NoIndex /\ editingTelegramId > index
          THEN editingTelegramId - 1
          ELSE editingTelegramId
    /\ UNCHANGED <<editingSecondaryEmail, originalFullName, showNameSaveMessage>>

\* startEditingTelegramId(index)
StartEditingTelegramId(index) ==
    /\ EditFrame
    /\ index \in 0..(Len(pForm.telegramIds) - 1)
    /\ editingTelegramId # index
    /\ editingTelegramId' = IF isDemo THEN editingTelegramId ELSE index
    /\ UNCHANGED <<pForm, editingSecondaryEmail, originalFullName, showNameSaveMessage>>

\* the inputs of the row being edited
TypeTelegramId(handle, label) ==
    /\ EditFrame
    /\ editingTelegramId \in 0..(Len(pForm.telegramIds) - 1)
    /\ pForm' = [pForm EXCEPT !.telegramIds[editingTelegramId + 1] =
                                  [handle |-> handle, label |-> label]]
    /\ UNCHANGED <<editingTelegramId, editingSecondaryEmail, originalFullName,
                   showNameSaveMessage>>

\* addSecondaryContact
AddSecondaryContact ==
    /\ EditFrame
    /\ ~isDemo
    /\ pForm' = [pForm EXCEPT !.secondaryEmails =
                    Append(@, [name |-> <<>>, email |-> <<>>, relationship |-> <<>>])]
    /\ editingSecondaryEmail' = Len(pForm.secondaryEmails)
    /\ UNCHANGED <<editingTelegramId, originalFullName, showNameSaveMessage>>

\* removeSecondaryContact(index)
RemoveSecondaryContact(index) ==
    /\ EditFrame
    /\ index \in 0..(Len(pForm.secondaryEmails) - 1)
    /\ editingSecondaryEmail = index \/ ~isDemo
    /\ pForm' = [pForm EXCEPT !.secondaryEmails = Without(@, index)]
    /\ editingSecondaryEmail' =
          IF editingSecondaryEmail = index THEN NoIndex
          ELSE IF editingSecondaryEmail # NoIndex /\ editingSecondaryEmail > index
          THEN editingSecondaryEmail - 1
          ELSE editingSecondaryEmail
    /\ UNCHANGED <<editingTelegramId, originalFullName, showNameSaveMessage>>

\* startEditingSecondaryEmail(index)
StartEditingSecondaryEmail(index) ==
    /\ EditFrame
    /\ index \in 0..(Len(pForm.secondaryEmails) - 1)
    /\ editingSecondaryEmail # index
    /\ editingSecondaryEmail' = IF isDemo THEN editingSecondaryEmail ELSE index
    /\ UNCHANGED <<pForm, editingTelegramId, originalFullName, showNameSaveMessage>>

\* the inputs of the contact being edited
TypeSecondaryContact(name, email, relationship) ==
    /\ EditFrame
    /\ editingSecondaryEmail \in 0..(Len(pForm.secondaryEmails) - 1)
    /\ pForm' = [pForm EXCEPT !.secondaryEmails[editingSecondaryEmail + 1] =
                    [name |-> name, email |-> email, relationship |-> relationship]]
    /\ UNCHANGED <<editingTelegramId, editingSecondaryEmail, originalFullName,
                   showNameSaveMessage>>

\* what a handler that starts no store call leaves alone
HandlerFrame ==
    /\ pPc = "idle"
    /\ submissions < MaxSubmissions
    /\ submissions' = submissions + 1
    /\ UNCHANGED <<pwPc, pUser, pProfile, profiles, pForm, isPasswordLoading,
                   originalFullName, showNameSaveMessage, edits>>
    /\ UNCHANGED <<rvars, eOwn, clock, dvars, avars, mvars, tvars>>

\* updateProfile(updates) up to the update of profiles: without a user it
\* throws, and the handler that called it shows failed
CallUpdateProfile(source, updates, failed) ==
    IF pUser = NoUser
    THEN /\ pToasts' = <<failed>>
         /\ pCalls' = <<>>
         /\ editingTelegramId' = IF source = "telegram" THEN NoIndex ELSE editingTelegramId
         /\ editingSecondaryEmail' =
               IF source = "secondary" THEN NoIndex ELSE editingSecondaryEmail
         /\ savingContact' = IF source = "profile" THEN savingContact ELSE NoIndex
         /\ UNCHANGED <<pPc, isProfileLoading, pUpdate>>
    ELSE /\ pToasts' = <<>>
         /\ pCalls' = <<ProfileCall("updateProfile", pUser, updates)>>
         /\ pPc' = "update"
         /\ pUpdate' = [source |-> source, updates |-> updates]
         /\ isProfileLoading' = (source = "profile" \/ isProfileLoading)
         /\ savingContact' =
               CASE source = "telegram" -> editingTelegramId
                 [] source = "secondary" -> editingSecondaryEmail + 1000
                 [] OTHER -> savingContact
         /\ UNCHANGED <<editingTelegramId, editingSecondaryEmail>>

\* profileForm.handleSubmit(onProfileSubmit)
ProfileSubmit ==
    /\ HandlerFrame
    /\ ~isProfileLoading
    /\ pLast' = IF ProfileFormErrors(pForm) # {} THEN NotHandled
                ELSE Handled("onProfileSubmit")
    /\ pErrors' = ProfileFormErrors(pForm)
    /\ IF ProfileFormErrors(pForm) # {}
       THEN /\ pToasts' = <<>>
            /\ pCalls' = <<>>
            /\ UNCHANGED <<pPc, editingTelegramId, editingSecondaryEmail, savingContact,
                           isProfileLoading, pUpdate>>
       ELSE IF isDemo
       THEN /\ pToasts' = <<Success("Demo mode: Profile changes not saved")>>
            /\ pCalls' = <<>>
            /\ UNCHANGED <<pPc, editingTelegramId, editingSecondaryEmail, savingContact,
                           isProfileLoading, pUpdate>>
       ELSE CallUpdateProfile("profile", ProfileUpdates(pForm), Error("Failed to update profile"))

\* saveTelegramId(index), the Save button of the row being edited
SaveTelegramId(index) ==
    /\ HandlerFrame
    /\ index = editingTelegramId
    /\ index \in 0..(Len(pForm.telegramIds) - 1)
    /\ pLast' = Handled("saveTelegramId")
    /\ IF isDemo
       THEN /\ editingTelegramId' = NoIndex
            /\ pToasts' = <<>>
            /\ pCalls' = <<>>
            /\ UNCHANGED <<pPc, editingSecondaryEmail, savingContact, isProfileLoading,
                           pErrors, pUpdate>>
       ELSE IF pForm.telegramIds[index + 1].handle = <<>>
       THEN /\ pErrors' = pErrors \cup {<<"telegramIds.handle", index>>}
            /\ pToasts' = <<>>
            /\ pCalls' = <<>>
            /\ UNCHANGED <<pPc, editingTelegramId, editingSecondaryEmail, savingContact,
                           isProfileLoading, pUpdate>>
       ELSE /\ CallUpdateProfile("telegram", ContactUpdates(pForm),
               Error("Failed to save Telegram ID"))
            /\ UNCHANGED pErrors

\* saveSecondaryEmail(index), the Save button of the contact being edited
SaveSecondaryEmail(index) ==
    /\ HandlerFrame
    /\ index = editingSecondaryEmail
    /\ index \in 0..(Len(pForm.secondaryEmails) - 1)
    /\ pLast' = Handled("saveSecondaryEmail")
    /\ IF isDemo
       THEN /\ editingSecondaryEmail' = NoIndex
            /\ pToasts' = <<>>
            /\ pCalls' = <<>>
            /\ UNCHANGED <<pPc, editingTelegramId, savingContact, isProfileLoading,
                           pErrors, pUpdate>>
       ELSE IF pForm.secondaryEmails[index + 1].name = <<>>
       THEN /\ pErrors' = pErrors \cup {<<"secondaryEmails.name", index>>}
            /\ pToasts' = <<>>
            /\ pCalls' = <<>>
            /\ UNCHANGED <<pPc, editingTelegramId, editingSecondaryEmail, savingContact,
                           isProfileLoading, pUpdate>>
       ELSE IF \/ pForm.secondaryEmails[index + 1].email = <<>>
               \/ ~IsEmail(pForm.secondaryEmails[index + 1].email)
       THEN /\ pErrors' = pErrors \cup {<<"secondaryEmails.email", index>>}
            /\ pToasts' = <<>>
            /\ pCalls' = <<>>
            /\ UNCHANGED <<pPc, editingTelegramId, editingSecondaryEmail, savingContact,
                           isProfileLoading, pUpdate>>
       ELSE /\ CallUpdateProfile("secondary", ContactUpdates(pForm),
               Error("Failed to save secondary email"))
            /\ UNCHANGED pErrors

\* the handler that awaits updateProfile runs to its end with toast
AfterUpdateProfile(toast) ==
    /\ pPc' = "idle"
    /\ pToasts' = Append(pToasts, toast)
    /\ isProfileLoading' = IF pUpdate.source = "profile" THEN FALSE ELSE isProfileLoading
    /\ editingTelegramId' = IF pUpdate.source = "telegram" THEN NoIndex ELSE editingTelegramId
    /\ editingSecondaryEmail' =
          IF pUpdate.source = "secondary" THEN NoIndex ELSE editingSecondaryEmail
    /\ savingContact' = IF pUpdate.source = "profile" THEN savingContact ELSE NoIndex
    /\ pUpdate' = NoUpdate

FailedToast(source) ==
    CASE source = "profile" -> Error("Failed to update profile")
      [] source = "telegram" -> Error("Failed to save Telegram ID")
      [] OTHER -> Error("Failed to save secondary email")

SavedToast(source) ==
    CASE source = "profile" -> Success("Profile updated successfully")
      [] source = "telegram" -> Success("Telegram ID saved successfully")
      [] OTHER -> Success("Secondary email saved successfully")

\* updateProfile: the update of profiles settles; on success fetchProfile starts
UpdateSettles(ok) ==
    /\ pPc = "update"
    /\ IF ok
       THEN /\ profiles' = ApplyUpdate(profiles, pUser, pUpdate.updates)
            /\ pPc' = "fetch"
            /\ UNCHANGED <<pToasts, isProfileLoading, editingTelegramId,
                           editingSecondaryEmail, savingContact, pUpdate,
                           showNameSaveMessage, originalFullName>>
       ELSE /\ AfterUpdateProfile(FailedToast(pUpdate.source))
            /\ UNCHANGED <<profiles, showNameSaveMessage, originalFullName>>
    /\ UNCHANGED <<pwPc, pUser, pProfile, pForm, isPasswordLoading, pCalls, pErrors,
                   pLast, edits>>
    /\ UNCHANGED <<rvars, evars, dvars, avars, mvars, tvars>>

\* fetchProfile settles and updateProfile returns to the handler
FetchSettles(o) ==
    /\ pPc = "fetch"
    /\ IF o = "ok"
       THEN \E r \in profiles :
               /\ r.user_id = pUser
               /\ pProfile' = r
               /\ pForm' = FormOf(r)
               /\ originalFullName' =
                     IF pUpdate.source = "profile" THEN pUpdate.updates.full_name
                     ELSE r.full_name
       ELSE UNCHANGED <<pProfile, pForm>> /\
            originalFullName' = IF pUpdate.source = "profile"
                                THEN pUpdate.updates.full_name ELSE originalFullName
    /\ showNameSaveMessage' = IF pUpdate.source = "profile" THEN FALSE
                              ELSE showNameSaveMessage
    /\ pPc' = "idle"
    /\ pToasts' = (IF o = "error" THEN Append(pToasts,
            Error("Failed to load profile")) ELSE pToasts)
                  \o <<SavedToast(pUpdate.source)>>
    /\ isProfileLoading' = IF pUpdate.source = "profile" THEN FALSE ELSE isProfileLoading
    /\ editingTelegramId' = IF pUpdate.source = "telegram" THEN NoIndex ELSE editingTelegramId
    /\ editingSecondaryEmail' =
          IF pUpdate.source = "secondary" THEN NoIndex ELSE editingSecondaryEmail
    /\ savingContact' = IF pUpdate.source = "profile" THEN savingContact ELSE NoIndex
    /\ pUpdate' = NoUpdate
    /\ UNCHANGED <<pwPc, pUser, profiles, isPasswordLoading, pCalls, pErrors, pLast, edits>>
    /\ UNCHANGED <<rvars, evars, dvars, avars, mvars, tvars>>

\* passwordForm.handleSubmit(onPasswordSubmit)
PasswordSubmit(pw) ==
    /\ pPc # "unmounted"
    /\ pwPc = "idle"
    /\ submissions < MaxSubmissions
    /\ submissions' = submissions + 1
    /\ pLast' = IF PasswordFormErrors(pw) # {} THEN NotHandled
                ELSE Handled("onPasswordSubmit")
    /\ pErrors' = {<<f, 0>> : f \in PasswordFormErrors(pw)}
    /\ IF PasswordFormErrors(pw) # {}
       THEN /\ pToasts' = <<>>
            /\ pCalls' = <<>>
            /\ UNCHANGED <<pwPc, isPasswordLoading>>
       ELSE IF isDemo
       THEN /\ pToasts' = <<Success("Demo mode: Password changes not allowed")>>
            /\ pCalls' = <<>>
            /\ UNCHANGED <<pwPc, isPasswordLoading>>
       ELSE /\ pToasts' = <<>>
            /\ pCalls' = <<ProfileCall("changePassword", pUser, pw.newPassword)>>
            /\ pwPc' = "password"
            /\ isPasswordLoading' = TRUE
    /\ UNCHANGED <<pPc, pUser, pProfile, profiles, pForm, editingTelegramId,
                   editingSecondaryEmail, savingContact, isProfileLoading,
                   originalFullName, showNameSaveMessage, pUpdate, edits>>
    /\ UNCHANGED <<rvars, eOwn, clock, dvars, avars, mvars, tvars>>

\* changePassword: supabase.auth.updateUser settles
PasswordSettles(o) ==
    /\ pwPc = "password"
    /\ pwPc' = "idle"
    /\ isPasswordLoading' = FALSE
    /\ pToasts' = Append(pToasts, CASE o = "ok" -> Success("Password updated successfully")
                                     [] o = "error" -> Error("error.message")
                                     [] OTHER ->
                                             Error("An unexpected error occurred while changing password"))
    /\ UNCHANGED <<pPc, pUser, pProfile, profiles, pForm, editingTelegramId,
                   editingSecondaryEmail, savingContact, isProfileLoading,
                   originalFullName, showNameSaveMessage, pCalls, pErrors, pLast,
                   pUpdate, edits>>
    /\ UNCHANGED <<rvars, evars, dvars, avars, mvars, tvars>>

ProfileInit ==
    /\ pPc = "unmounted"
    /\ pwPc = "idle"
    /\ pUser = NoUser
    /\ pProfile = NoProfile
    /\ profiles = {}
    /\ pForm = FormOf(NoProfile)
    /\ editingTelegramId = NoIndex
    /\ editingSecondaryEmail = NoIndex
    /\ savingContact = NoIndex
    /\ isProfileLoading = FALSE
    /\ isPasswordLoading = FALSE
    /\ originalFullName = <<>>
    /\ showNameSaveMessage = FALSE
    /\ pToasts = <<>>
    /\ pCalls = <<>>
    /\ pErrors = {}
    /\ pLast = NotHandled
    /\ pUpdate = NoUpdate
    /\ edits = 0

ProfileNext ==
    \/ \E user \in Users \cup {NoUser}, row \in StoredProfiles, loaded \in BOOLEAN :
          MountProfile(user, row, loaded)
    \/ ProfileLoads
    \/ \E name \in {<<"A">>, <<"A", "l">>} : HandleNameChange(name)
    \/ AddTelegramId
    \/ \E i \in 0..MaxEdits : RemoveTelegramId(i)
    \/ \E i \in 0..MaxEdits : StartEditingTelegramId(i)
    \/ \E h \in {<<>>, <<"b">>, <<"a", ":", "b">>}, l \in {<<>>, <<"m">>} :
          TypeTelegramId(h, l)
    \/ AddSecondaryContact
    \/ \E i \in 0..MaxEdits : RemoveSecondaryContact(i)
    \/ \E i \in 0..MaxEdits : StartEditingSecondaryEmail(i)
    \/ \E n \in {<<>>, <<"a", "l">>}, e \in {<<>>, <<"a">>, ValidEmail},
          r \in {<<>>, <<"m">>} : TypeSecondaryContact(n, e, r)
    \/ ProfileSubmit
    \/ \E i \in 0..MaxEdits : SaveTelegramId(i)
    \/ \E i \in 0..MaxEdits : SaveSecondaryEmail(i)
    \/ \E ok \in BOOLEAN : UpdateSettles(ok)
    \/ \E o \in {"ok", "error", "timeout"} : FetchSettles(o)
    \/ \E pw \in PasswordValues : PasswordSubmit(pw)
    \/ \E o \in {"ok", "error", "threw"} : PasswordSettles(o)

----------------------------------------------------------------------------
(* The browser: AuthProvider (getInitialSession, the onAuthStateChange     *)
(* callback, fetchProfile) and the Dashboard that loads the readings.      *)
(* pUser and pProfile are the provider's user and profile.  A call that    *)
(* races a timeout settles; the getSession of fetchProfile races none.     *)

MaxAuthEvents == 2

\* the row .eq('user_id', userId).single() delivers
ProfileOf(userId) == ProfileRow(userId, FALSE, <<"A", "l">>, <<>>, <<>>)

\* fetchProfile(userId) as called from getInitialSession or from the
\* callback, suspended at the profile query
FetchProfile(caller, userId) == [caller |-> caller, userId |-> userId, stage |-> "query"]

\* Dashboard's loadReadings: getDailyReadings throws without a user, and
\* the finally block clears isInitialLoad
LoadReadings(user) ==
    IF user = NoUser
    THEN /\ isInitialLoad' = FALSE
         /\ UNCHANGED <<hLoads, hIssued>>
    ELSE /\ hLoads' = Append(hLoads, user)
         /\ hIssued' = hIssued + 1
         /\ UNCHANGED isInitialLoad

\* setUser(user): a new user replaces getDailyReadings and loadReadings,
\* and the Dashboard's effect on [loadReadings, isInitialLoad] runs again
SetUser(user) ==
    /\ pUser' = user
    /\ IF hMounted /\ isInitialLoad /\ (user # NoUser \/ pUser # NoUser)
       THEN LoadReadings(user)
       ELSE UNCHANGED <<hLoads, hIssued, isInitialLoad>>
    /\ UNCHANGED <<hMounted, hReadings, hLast>>

\* getInitialSession: the race of getSession and the 10 s timer settles
SessionSettles(o, user) ==
    /\ aPc = "session"
    /\ IF o = "session"
       THEN /\ SetUser(user)
            /\ IF user # NoUser
               THEN /\ aFetches' = Append(aFetches, FetchProfile("init", user))
                    /\ aPc' = "profile"
                    /\ UNCHANGED aLoading
               ELSE /\ aLoading' = FALSE
                    /\ aPc' = "done"
                    /\ UNCHANGED aFetches
       ELSE /\ user = NoUser
            /\ aLoading' = FALSE
            /\ aPc' = "done"
            /\ UNCHANGED <<pUser, aFetches, hMounted, isInitialLoad, hReadings, hLoads,
                           hIssued, hLast>>
    /\ UNCHANGED <<pProfile, aEvents>>
    /\ UNCHANGED <<rvars, evars, dvars, pOwn, mvars, tvars>>

\* the onAuthStateChange callback, up to its await or to its end
OnAuthStateChange(user) ==
    /\ aEvents < MaxAuthEvents
    /\ aEvents' = aEvents + 1
    /\ SetUser(user)
    /\ IF user # NoUser
       THEN /\ aFetches' = Append(aFetches, FetchProfile("listener", user))
            /\ UNCHANGED <<pProfile, aLoading>>
       ELSE /\ pProfile' = NoProfile
            /\ aLoading' = FALSE
            /\ UNCHANGED aFetches
    /\ UNCHANGED aPc
    /\ UNCHANGED <<rvars, evars, dvars, pOwn, mvars, tvars>>

\* fetchProfile returns to its caller, which clears loading
FetchReturns(i) ==
    /\ aFetches' = Without(aFetches, i - 1)
    /\ aLoading' = FALSE
    /\ aPc' = IF aFetches[i].caller = "init" THEN "done" ELSE aPc
    /\ UNCHANGED <<pUser, aEvents, hMounted, isInitialLoad, hReadings, hLoads, hIssued,
                   hLast>>
    /\ UNCHANGED <<rvars, evars, dvars, pOwn, mvars, tvars>>

\* fetchProfile: the race of the profile query and the 5 s timer settles
ProfileQuerySettles(i, o) ==
    /\ i \in 1..Len(aFetches)
    /\ aFetches[i].stage = "query"
    /\ IF o = "data"
       THEN /\ aFetches' = [aFetches EXCEPT ![i].stage = "getSession"]
            /\ UNCHANGED <<pUser, pProfile, aPc, aLoading, aEvents, hMounted,
                           isInitialLoad, hReadings, hLoads, hIssued, hLast>>
            /\ UNCHANGED <<rvars, evars, dvars, pOwn, mvars, tvars>>
       ELSE FetchReturns(i) /\ UNCHANGED pProfile

\* fetchProfile: supabase.auth.getSession() resolves and setProfile runs
ProfileSessionSettles(i) ==
    /\ i \in 1..Len(aFetches)
    /\ aFetches[i].stage = "getSession"
    /\ pProfile' = ProfileOf(aFetches[i].userId)
    /\ FetchReturns(i)

\* fetchProfile: supabase.auth.getSession() never resolves
ProfileSessionStalls(i) ==
    /\ i \in 1..Len(aFetches)
    /\ aFetches[i].stage = "getSession"
    /\ aFetches' = [aFetches EXCEPT ![i].stage = "stalled"]
    /\ UNCHANGED <<pUser, pProfile, aPc, aLoading, aEvents, hMounted, isInitialLoad,
                   hReadings, hLoads, hIssued, hLast>>
    /\ UNCHANGED <<rvars, evars, dvars, pOwn, mvars, tvars>>

\* the Dashboard mounts and its effect runs
DashboardMounts ==
    /\ ~hMounted
    /\ hMounted' = TRUE
    /\ LoadReadings(pUser)
    /\ UNCHANGED <<pUser, pProfile, aPc, aLoading, aFetches, aEvents, hReadings, hLast>>
    /\ UNCHANGED <<rvars, evars, dvars, pOwn, mvars, tvars>>

\* what daily_readings may hold when a load settles
StoredReadings ==
    {{}} \cup {{Row(1, user, UpsertRow(ReadingData(ParseReading(raw)), user, 0))} :
                  user \in {"u1", "u2"},
                  raw \in {r \in RawReadings : ReadingFormErrors(r) = {} /\ r.notes = ""}}

\* loadReadings: getDailyReadings settles (it returns [] when the select
\* fails), then setReadings and the finally block
ReadingsSettle(i, ok, rows) ==
    /\ i \in 1..Len(hLoads)
    /\ hReadings' = IF ok THEN SelectReadings(rows, hLoads[i]) ELSE <<>>
    /\ isInitialLoad' = FALSE
    /\ hLoads' = Without(hLoads, i - 1)
    /\ hLast' = IF ok THEN "ok" ELSE "error"
    /\ UNCHANGED <<pUser, pProfile, aPc, aLoading, aFetches, aEvents, hMounted, hIssued>>
    /\ UNCHANGED <<rvars, evars, dvars, pOwn, mvars, tvars>>

AuthInit ==
    /\ aPc = "session"
    /\ aLoading = TRUE
    /\ aFetches = <<>>
    /\ aEvents = 0
    /\ hMounted = FALSE
    /\ isInitialLoad = TRUE
    /\ hReadings = <<>>
    /\ hLoads = <<>>
    /\ hIssued = 0
    /\ hLast = "none"

\* the steps a timer or a settling call takes
AuthProgress ==
    \/ \E o \in {"session", "error", "timeout"}, user \in {NoUser, "u1", "u2"} :
          SessionSettles(o, user)
    \/ \E i \in 1..(MaxAuthEvents + 1) :
          \/ \E o \in {"data", "error", "timeout"} : ProfileQuerySettles(i, o)
          \/ ProfileSessionSettles(i)
          \/ \E ok \in BOOLEAN, rows \in StoredReadings : ReadingsSettle(i, ok, rows)

AuthNext ==
    \/ AuthProgress
    \/ \E user \in {NoUser, "u1", "u2"} : OnAuthStateChange(user)
    \/ \E i \in 1..(MaxAuthEvents + 1) : ProfileSessionStalls(i)
    \/ DashboardMounts

----------------------------------------------------------------------------
(* The browser: a MultiSelect and the form field that holds its selected   *)
(* prop; onChange(value) sets the field.                                   *)

\* the options prop
Options == << <<"A", "b">>, <<"a", "c">>, <<"B">> >>

\* String.prototype.toLowerCase()
ToLowerCase(text) ==
    [i \in 1..Len(text) |-> CASE text[i] = "A" -> "a"
                              [] text[i] = "B" -> "b"
                              [] OTHER -> text[i]]

\* String.prototype.includes(part)
StringIncludes(text, part) ==
    \E k \in 0..(Len(text) - Len(part)) : SubSeq(text, k + 1, k + Len(part)) = part

AvailableOptions_KeepsSelected(options, sel, search) ==
    SelectSeq(options,
              LAMBDA option : StringIncludes(ToLowerCase(option), ToLowerCase(search)))

\* const availableOptions = options.filter(...)
AvailableOptions(options, sel, search) ==
    SelectSeq(options,
              LAMBDA option : /\ ~Includes(sel, option)
                              /\ StringIncludes(ToLowerCase(option), ToLowerCase(search)))

\* the render that follows an event
Render(op, key) ==
    /\ availableOptions' = AvailableOptions(Options, selected', searchValue')
    /\ mLast' = [op |-> op, key |-> key]
    /\ UNCHANGED <<rvars, evars, dvars, pvars, avars, tvars>>

\* handleSelect(value), the click on an option of the open dropdown
HandleSelect(value) ==
    /\ open
    /\ Includes(availableOptions, value)
    /\ selected' = IF ~Includes(selected, value) THEN Append(selected, value) ELSE selected
    /\ searchValue' = <<>>
    /\ UNCHANGED open
    /\ Render("select", "")

\* handleRemove(value), the click on the button of a pill
HandleRemove(value) ==
    /\ Includes(selected, value)
    /\ selected' = SelectSeq(selected, LAMBDA item : item # value)
    /\ UNCHANGED <<open, searchValue>>
    /\ Render("remove", "")

\* handleKeyDown(e)
HandleKeyDown(key) ==
    /\ IF key = "Backspace" /\ searchValue = <<>> /\ Len(selected) > 0
       THEN selected' = SubSeq(selected, 1, Len(selected) - 1) /\ UNCHANGED open
       ELSE IF key = "Escape"
       THEN open' = FALSE /\ UNCHANGED selected
       ELSE IF key = "Enter"
       THEN open' = ~open /\ UNCHANGED selected
       ELSE UNCHANGED <<selected, open>>
    /\ UNCHANGED searchValue
    /\ Render("keydown", key)

\* the input's onChange
SetSearchValue(text) ==
    /\ searchValue' = text
    /\ UNCHANGED <<selected, open>>
    /\ Render("search", "")

\* the click on the container or the focus of the input (true), the click
\* outside (false), the chevron (!open)
SetOpen(value) ==
    /\ open' = value
    /\ UNCHANGED <<selected, searchValue>>
    /\ Render("open", "")

MultiSelectInit ==
    /\ selected = <<>>
    /\ open = FALSE
    /\ searchValue = <<>>
    /\ availableOptions = Options
    /\ mLast = [op |-> "none", key |-> ""]

MultiSelectNext ==
    \/ \E value \in {Options[i] : i \in 1..Len(Options)} : HandleSelect(value)
    \/ \E value \in {Options[i] : i \in 1..Len(Options)} : HandleRemove(value)
    \/ \E key \in {"Backspace", "Escape", "Enter", "a"} : HandleKeyDown(key)
    \/ \E text \in {<<>>, <<"a">>, <<"B">>, <<"x">>} : SetSearchValue(text)
    \/ \E value \in BOOLEAN : SetOpen(value)

----------------------------------------------------------------------------
(* The browser: ReadingsTable.  A date is the number of its day; the data  *)
(* prop arrives once, when the Dashboard's load has settled.               *)

\* undefined, for a date
NoDay == 0

ItemsPerPage == 7

NoRange == [from |-> NoDay, to |-> NoDay]

\* const filteredData = ...
FilteredData(allData, day, range) ==
    IF range.from # NoDay /\ range.to # NoDay
    THEN SelectSeq(allData, LAMBDA item : item >= range.from /\ item <= range.to)
    ELSE IF day # NoDay
    THEN SelectSeq(allData, LAMBDA item : item = day)
    ELSE allData

\* Math.ceil(sortedData.length / itemsPerPage)
TotalPages(allData, day, range) ==
    (Len(FilteredData(allData, day, range)) + ItemsPerPage - 1) \div ItemsPerPage

TableFrame(op) ==
    /\ tLast' = op
    /\ UNCHANGED <<rvars, evars, dvars, pvars, avars, mvars>>

\* the data prop changes from [] to the readings loaded
DataArrives(allData) ==
    /\ tData = <<>>
    /\ allData # <<>>
    /\ tData' = allData
    /\ UNCHANGED <<tDate, dateRange, currentPage, sortOrder>>
    /\ TableFrame("allData")

HandleDateSelect_KeepsPage(selectedDate) ==
    /\ tDate' = selectedDate
    /\ dateRange' = NoRange
    /\ sortOrder' = IF selectedDate # NoDay THEN "desc" ELSE sortOrder
    /\ UNCHANGED <<tData, currentPage>>
    /\ TableFrame("date")

\* handleDateSelect(selectedDate)
HandleDateSelect(selectedDate) ==
    /\ tDate' = selectedDate
    /\ dateRange' = NoRange
    /\ currentPage' = 1
    /\ sortOrder' = IF selectedDate # NoDay THEN "desc" ELSE sortOrder
    /\ UNCHANGED tData
    /\ TableFrame("date")

\* handleDateRangeSelect(range)
HandleDateRangeSelect(range) ==
    /\ dateRange' = range
    /\ tDate' = NoDay
    /\ currentPage' = 1
    /\ UNCHANGED <<tData, sortOrder>>
    /\ TableFrame("range")

\* clearFilters, shown while a filter is set
ClearFilters ==
    /\ tDate # NoDay \/ dateRange.from # NoDay
    /\ tDate' = NoDay
    /\ dateRange' = NoRange
    /\ currentPage' = 1
    /\ sortOrder' = "desc"
    /\ UNCHANGED tData
    /\ TableFrame("clear")

\* toggleSortOrder
ToggleSortOrder ==
    /\ IF tDate = NoDay
       THEN /\ sortOrder' = IF sortOrder = "asc" THEN "desc" ELSE "asc"
            /\ currentPage' = 1
       ELSE UNCHANGED <<sortOrder, currentPage>>
    /\ UNCHANGED <<tData, tDate, dateRange>>
    /\ TableFrame("sort")

\* Previous: setCurrentPage(prev => Math.max(prev - 1, 1))
PreviousPage ==
    /\ TotalPages(tData, tDate, dateRange) > 1
    /\ currentPage # 1
    /\ currentPage' = IF currentPage - 1 > 1 THEN currentPage - 1 ELSE 1
    /\ UNCHANGED <<tData, tDate, dateRange, sortOrder>>
    /\ TableFrame("previous")

\* Next: setCurrentPage(prev => Math.min(prev + 1, totalPages))
NextPage ==
    /\ TotalPages(tData, tDate, dateRange) > 1
    /\ currentPage # TotalPages(tData, tDate, dateRange)
    /\ currentPage' = IF currentPage + 1 < TotalPages(tData, tDate, dateRange)
                      THEN currentPage + 1 ELSE TotalPages(tData, tDate, dateRange)
    /\ UNCHANGED <<tData, tDate, dateRange, sortOrder>>
    /\ TableFrame("next")

TableInit ==
    /\ tData = <<>>
    /\ tDate = NoDay
    /\ dateRange = NoRange
    /\ currentPage = 1
    /\ sortOrder = "desc"
    /\ tLast = "none"

TableNext ==
    \/ \E n \in {8, 15} : DataArrives([i \in 1..n |-> n + 1 - i])
    \/ \E day \in {NoDay, 3, 20} : HandleDateSelect(day)
    \/ \E range \in {NoRange, [from |-> 1, to |-> NoDay], [from |-> 1, to |-> 8],
                     [from |-> 1, to |-> 15], [from |-> 9, to |-> 15],
                     [from |-> 20, to |-> 25]} : HandleDateRangeSelect(range)
    \/ ClearFilters
    \/ ToggleSortOrder
    \/ PreviousPage
    \/ NextPage

----------------------------------------------------------------------------
Init == RelayInit /\ EmergencyInit /\ ReadingInit /\ ProfileInit /\ AuthInit
        /\ MultiSelectInit /\ TableInit

RelaySpec == Init /\ [][RelayNext]_vars

Spec == Init /\ [][EmergencyNext]_vars

ReadingSpec == Init /\ [][ReadingNext]_vars

ProfileSpec == Init /\ [][ProfileNext]_vars

AuthSpec == Init /\ [][AuthNext]_vars

MultiSelectSpec == Init /\ [][MultiSelectNext]_vars

TableSpec == Init /\ [][TableNext]_vars

\* timers fire, and a call that has not stalled settles
AuthFairSpec == AuthSpec /\ WF_vars(AuthProgress)

\* the Forms page used for one of its two forms: the emergency form of a
\* loaded bundle, or the reading form of the tabs
FormsNext ==
    \/ (\A t \in Tabs : dPc[t] = "unmounted") /\ EmergencyNext
    \/ ePc = "unloaded" /\ ReadingNext

FormsSpec == Init /\ [][FormsNext]_vars

\* the store answers, the timer fires and a fetch that has not stalled settles
FairSpec == Spec /\ WF_vars(EmergencyProgress)

----------------------------------------------------------------------------
(* Properties of the relay.                                                *)

UrlOrSecretAbsent == rEnv.url = "" \/ rEnv.secret = ""

RelayPreconditions == ~UrlOrSecretAbsent /\ rReq.method = "POST"

\* C1: whatever the method and the body, an invocation that finds the
\* destination URL or the secret missing answers 500 with the
\* missing-configuration error and has made no outbound call.
C1_FailClosed ==
    (rPc = "done" /\ UrlOrSecretAbsent) =>
        /\ rResp = Json(500, MissingEnvError)
        /\ Len(rCalls) = 0

C1_Witness ==
    /\ rPc = "done"
    /\ rEnv.url # "" /\ rEnv.secret = ""
    /\ rReq.method = "POST"
    /\ rResp.status = 500

\* C2 as stated: every non-POST request is answered 405 with no outbound
\* call, whatever the configuration.
C2_Original ==
    (rPc = "done" /\ rReq.method # "POST") =>
        /\ rResp.status = 405
        /\ Len(rCalls) = 0

\* C2 as amended: a non-POST request never causes an outbound call; it is
\* answered 405 when the configuration is present and 500 (missing
\* configuration) when the URL or the secret is missing, because the
\* configuration is consulted before the method.
C2_MethodGate ==
    (rPc = "done" /\ rReq.method # "POST") =>
        /\ Len(rCalls) = 0
        /\ rResp = IF UrlOrSecretAbsent THEN Json(500, MissingEnvError)
                                          ELSE Json(405, MethodError)

C2_Witness ==
    /\ rPc = "done"
    /\ rReq.method = "GET"
    /\ ~UrlOrSecretAbsent
    /\ rResp.status = 405

\* C3: with the configuration present and method POST, when the
\* destination answers status s with a JSON body of value b, the relay
\* answers status s with a JSON body of value b (2xx or not).
C3_PassThrough ==
    (rPc = "done" /\ RelayPreconditions /\ rRes # NoRes /\ JSONParse(rRes.text).ok) =>
        /\ rResp.status = rRes.status
        /\ JSONParse(rResp.body) = JSONParse(rRes.text)

C3_Witness ==
    /\ rPc = "done"
    /\ rRes.status = 400
    /\ rRes.text = Text("json", JsonVal("error", "upstream"), "spaced")
    /\ rResp.status = 400

\* C4: an invocation makes exactly one outbound POST when the configuration
\* is present and the method is POST, whether the call succeeds or fails,
\* and none otherwise; there is never a second call.
C4_CallCount ==
    /\ Len(rCalls) <= 1
    /\ \A i \in 1..Len(rCalls) : rCalls[i].method = "POST"
    /\ rPc \in {"fetch", "json", "done"} =>
          Len(rCalls) = IF RelayPreconditions THEN 1 ELSE 0

C4_Witness ==
    /\ rPc = "done"
    /\ RelayPreconditions
    /\ rRes = NoRes
    /\ Len(rCalls) = 1
    /\ rResp.status = 500

\* C5: with the configuration present and method POST, when the outbound
\* call fails (fetch rejects, or the answer is not JSON) the relay answers
\* 500 with the proxy error, logs it, and does not pass the destination's
\* answer through.
C5_OutboundFailure ==
    (rPc = "done" /\ RelayPreconditions /\ (rRes = NoRes \/ ~JSONParse(rRes.text).ok)) =>
        /\ rResp = Json(500, ProxyError)
        /\ Len(rLog) = 1

C5_Witness ==
    /\ rPc = "done"
    /\ RelayPreconditions
    /\ rRes.status = 200
    /\ rRes.text = NotJsonText
    /\ rResp.status = 500

----------------------------------------------------------------------------
(* Properties of the emergency submission.                                 *)

Is2xx(status) == status >= 200 /\ status <= 299

Shown(toast) == \E i \in 1..Len(toasts) : toasts[i] = toast

\* the fetch calls made inside createEmergency, in order
CePosts == SelectSeq(posts, LAMBDA p : p.src = "createEmergency")

Returned == emergency # NotReturned

AnsweredNon2xx(p) == p.state = "resolved" /\ ~Is2xx(p.status)

\* a 2xx answer that arrived whole (a development build also reads its body)
Answered2xx(p) == p.state = "resolved" /\ Is2xx(p.status) /\ p.textRead # "failed"

\* C6: when the first POST of createEmergency is answered non-2xx, a second
\* POST with the same URL, body and secret header is made, and only after
\* the first has completed; there is no third; when that second POST is
\* answered 2xx, createEmergency returns the record and no delivery warning
\* is shown.
C6_RetryOnce ==
    /\ Len(CePosts) <= 2
    /\ \A i \in 1..Len(posts) : \A j \in 1..Len(posts) :
          i < j => posts[i].state # "pending"
    /\ (Len(CePosts) >= 1 /\ AnsweredNon2xx(CePosts[1]) /\ ePc # "delay") =>
          /\ Len(CePosts) = 2
          /\ CePosts[2].body = CePosts[1].body
          /\ CePosts[2].url = CePosts[1].url
          /\ CePosts[2].secret = ClientSecret /\ CePosts[1].secret = ClientSecret
    /\ (Returned /\ Len(CePosts) = 2 /\ Answered2xx(CePosts[2])) =>
          /\ ~Shown(WebhookWarning)
          /\ emergency = data /\ data # Null

C6_Witness ==
    /\ Returned
    /\ Len(CePosts) = 2
    /\ CePosts[1].state = "resolved" /\ CePosts[1].status = 500
    /\ CePosts[2].state = "resolved" /\ CePosts[2].status = 204
    /\ ~Shown(WebhookWarning)
    /\ Shown(ReportSaved)

\* C7: one submission issues at most two webhook POSTs from the browser,
\* and a first POST answered 2xx is not followed by another.
C7_AtMostTwoPosts ==
    /\ Len(posts) <= 2
    /\ (Len(posts) >= 1 /\ posts[1].state = "resolved" /\ Is2xx(posts[1].status)) =>
          Len(posts) = 1

\* C8: when the insert succeeded and both webhook attempts failed,
\* createEmergency returns the created record, the row is still in the
\* store as it was returned, and the delivery warning is shown next to the
\* success message.
C8_NotificationFailureNonFatal ==
    /\ (Returned /\ emergency # Null) => emergency \in events
    /\ (Returned /\ Len(CePosts) = 2 /\ AnsweredNon2xx(CePosts[1])
            /\ (AnsweredNon2xx(CePosts[2]) \/ CePosts[2].state = "rejected")) =>
          /\ emergency # Null
          /\ emergency = data
          /\ emergency.id >= 1
          /\ Shown(WebhookWarning)
          /\ Shown(ReportSaved)

C8_Witness ==
    /\ Returned
    /\ Len(CePosts) = 2
    /\ CePosts[1].state = "resolved" /\ CePosts[1].status = 500
    /\ CePosts[2].state = "resolved" /\ CePosts[2].status = 404
    /\ emergency \in events
    /\ Shown(WebhookWarning)
    /\ ePc = "idle"

\* C9: a first attempt that ends in a network failure is followed by one
\* retry, and the warning is shown only if the retry fails too.
C9_RetryOnNetworkFailure ==
    (Returned /\ Len(CePosts) >= 1 /\ CePosts[1].state = "rejected") =>
        /\ Len(CePosts) = 2
        /\ Shown(WebhookWarning) => ~Answered2xx(CePosts[2])

\* C10: once the insert has succeeded, createEmergency eventually returns
\* the record and onEmergencySubmit eventually finishes with the loading
\* flags cleared, whatever the webhook destination does.
C10_NotificationDoesNotBlock ==
    (data # Null) ~> (emergency = data /\ ePc = "idle"
                        /\ ~isEmergencyLoading /\ ~loading)

\* the store calls of this submission on one table
CallsOn(table) == SelectSeq(calls, LAMBDA c : c.table = table)

\* C11: createEmergency posts to the webhook only once the store has
\* returned the created row, and what it posts is that row with the id the
\* store assigned; when the insert fails or no user is signed in it returns
\* null and no POST is made.
C11_WebhookOnlyAfterInsert ==
    /\ Len(CePosts) >= 1 =>
          /\ data # Null /\ data.id >= 1 /\ data \in events
          /\ data.user_id = auth.user
          /\ \A i \in 1..Len(CePosts) : CePosts[i].body.val.record = data
    /\ (Returned /\ data = Null) => (emergency = Null /\ Len(posts) = 0)
    /\ (submissions > 0 /\ formErrors = {} /\ ~auth.isDemo /\ auth.profileUser # NoUser
            /\ auth.user = NoUser) =>
          (emergency = Null /\ Len(posts) = 0 /\ Len(calls) = 0)
    /\ (Returned /\ emergency # Null) => emergency = data

C11_Witness ==
    /\ Returned
    /\ Len(CePosts) >= 1
    /\ CePosts[1].body.val.record.id = 2
    /\ Cardinality(events) = 2

\* C16: saveMedications is called only after createEmergency has returned
\* a created row, with the id of that row as event_id, and never after
\* null; every medication row belongs to an event the store holds.
C16_MedicationsAfterEvent ==
    /\ \A i \in 1..Len(CallsOn("emergency_medications")) :
          /\ Returned /\ emergency # Null /\ emergency \in events
          /\ CallsOn("emergency_medications")[i].event_id = emergency.id
          /\ emergency.id >= 1
    /\ \A m \in medRows : \E e \in events : e.id = m.event_id
    /\ \A e1 \in events : \A e2 \in events : e1.id = e2.id => e1 = e2

C16_Witness ==
    /\ ePc = "idle"
    /\ Len(CallsOn("emergency_medications")) = 1
    /\ emergency.id = 2
    /\ \E m \in medRows : m.event_id = 2

MedicationInsertFailed ==
    /\ Len(CallsOn("emergency_medications")) >= 1
    /\ ePc # "meds"
    /\ ~\E m \in medRows : m.event_id = emergency.id

WebhookFailed ==
    /\ Len(CePosts) >= 1
    /\ ~Answered2xx(CePosts[Len(CePosts)])
    /\ CePosts[Len(CePosts)].state \in {"resolved", "rejected"}

\* C17: when the emergency insert succeeded and the medication insert
\* failed, the emergency row is still in the store as created, each insert
\* was called once, the failure is shown, and the webhook warning depends
\* on the webhook calls alone.
C17_NoRollback ==
    /\ Len(CallsOn("emergency_events")) <= 1
    /\ Len(CallsOn("emergency_medications")) <= 1
    /\ MedicationInsertFailed =>
          /\ emergency \in events /\ emergency = data
          /\ Len(calls) = 2
          /\ Shown(MedsFailed) \/ Shown(MedsThrew)
          /\ Shown(WebhookWarning) <=> WebhookFailed

C17_Witness ==
    /\ MedicationInsertFailed
    /\ ePc = "idle"
    /\ Shown(MedsFailed)
    /\ Shown(WebhookWarning)
    /\ emergency \in events

\* the rows of daily_readings of one user and one date
RowsOn(rows, user, date) == {r \in rows : r.user_id = user /\ r.fields.date = date}

\* what the form submitted: every column of the upsert but edited_date
Submitted(w) == [w EXCEPT !.edited_date = 0]

\* C12: whenever the store applies a createDailyReading upsert, it then
\* holds exactly one row for that user and date, carrying the values of
\* this call, and every other row is as before; a call that repeats the
\* values already on file leaves the submitted values of the table as they
\* were.
C12_UpsertOnUserDate ==
    [][Len(applied') > Len(applied) =>
          LET w == applied'[Len(applied')]
              old == RowsOn(readings, w.user_id, w.date)
              new == RowsOn(readings', w.user_id, w.date)
          IN /\ Cardinality(new) = 1
             /\ \A r \in new : r.fields = w
             /\ readings' \ new = readings \ old
             /\ old # {} => Cardinality(readings') = Cardinality(readings)
             /\ (old # {} /\ \A r \in old : Submitted(r.fields) = Submitted(w)) =>
                   {Submitted(r.fields) : r \in readings'} =
                   {Submitted(r.fields) : r \in readings}]_vars

C12_Witness ==
    /\ Len(applied) = 2
    /\ applied[1].user_id = applied[2].user_id
    /\ applied[1].date = applied[2].date
    /\ applied[1].sugar_morning # applied[2].sugar_morning
    /\ applied[1].edited_date < applied[2].edited_date
    /\ Cardinality(readings) = 1
    /\ \A t \in Tabs : dPc[t] # "upsert"

\* the upserts applied so far for the key of row r
AppliedOn(r) ==
    SelectSeq(applied, LAMBDA w : w.user_id = r.user_id /\ w.date = r.fields.date)

\* C13: in every reachable state the store holds at most one row per user
\* and date, and that row equals in every column the upsert the store
\* applied last for that user and date, whichever tab it came from.
C13_LastWriteWins ==
    /\ \A r1 \in readings : \A r2 \in readings :
          (r1.user_id = r2.user_id /\ r1.fields.date = r2.fields.date) => r1 = r2
    /\ \A r \in readings :
          /\ Len(AppliedOn(r)) >= 1
          /\ r.fields = AppliedOn(r)[Len(AppliedOn(r))]
    /\ \A i \in 1..Len(applied) :
          RowsOn(readings, applied[i].user_id, applied[i].date) # {}

\* the upsert issued first was applied last
C13_Witness ==
    /\ Len(applied) = 2
    /\ applied[1].date = applied[2].date
    /\ applied[2].edited_date < applied[1].edited_date
    /\ applied[1].notes # applied[2].notes
    /\ applied[1].sugar_morning # applied[2].sugar_morning
    /\ Cardinality(readings) = 1

\* C14: every createDailyReading call for a date already on file for the
\* user was confirmed in the duplicate-date dialog.
C14_ConfirmBeforeOverwrite ==
    \A t \in Tabs : \A i \in 1..Len(dCalls[t]) :
        dCalls[t][i].onFile => dCalls[t][i].confirmed

\* C18: no data-access call throws to its caller, and each failed call has
\* shown a notification and returned its failure value.
C18_FailureSentinels ==
    \A t \in Tabs :
        /\ dLoad[t] # "threw"
        /\ dLoad[t] = "failed" => existingDates[t] = <<>>
        /\ (\E i \in 1..Len(dCalls[t]) : dCalls[t][i].user_id = NoUser) =>
              Includes(dToasts[t], Error("Please log in to save readings"))

\* C15: a handler that ran while the profile's demo flag was set made no
\* updateProfile or changePassword call and showed a success message.
C15_DemoGate ==
    (pLast.handler # "none" /\ pLast.demo) =>
        /\ pCalls = <<>>
        /\ Len(pToasts) >= 1
        /\ pToasts[1].kind = "success"

\* C19: every store call of a submission carries the id of the signed-in
\* user.
C19_UserScoped ==
    \A i \in 1..Len(calls) : calls[i].user_id # NoUser /\ calls[i].user_id = auth.user

ValidEmergencyValues(v) ==
    /\ v.date # NoDate
    /\ v.sugarLevel >= 10 /\ v.sugarLevel <= 5000
    /\ Len(v.symptoms) >= 1
    /\ \A i \in 1..Len(v.medicationsGiven) :
          /\ v.medicationsGiven[i].name # ""
          /\ v.medicationsGiven[i].dose >= 1 /\ v.medicationsGiven[i].dose <= 1000

ValidReadingColumns(w) ==
    /\ w.date # Format(NoDate)
    /\ w.sugar_morning >= 10 /\ w.sugar_morning <= 5000
    /\ w.sugar_night >= 10 /\ w.sugar_night <= 5000
    /\ w.insulin_morning >= 0 /\ w.insulin_morning <= 1000
    /\ w.insulin_night >= 0 /\ w.insulin_night <= 1000

\* C20: a submission the resolver rejected made no store call and no
\* webhook call, and every value that reached createDailyReading,
\* createEmergency, saveMedications or the store is within the schema's
\* ranges.
C20_ValidationGate ==
    /\ formErrors # {} => (calls = <<>> /\ posts = <<>> /\ values = NoValues /\ ePc = "idle")
    /\ values # NoValues => ValidEmergencyValues(values)
    /\ \A e \in events : e.fields.sugar_level >= 10 /\ e.fields.sugar_level <= 5000
    /\ \A m \in medRows : m.med_name # "" /\ m.dose >= 1 /\ m.dose <= 1000
    /\ \A t \in Tabs :
          /\ dErrors[t] # {} => (dCalls[t] = <<>> /\ dPc[t] = "idle")
          /\ \A i \in 1..Len(dCalls[t]) : ValidReadingColumns(dCalls[t][i].reading)
          /\ dPc[t] = "upsert" => ValidReadingColumns(dReq[t])
    /\ \A r \in readings : ValidReadingColumns(r.fields)

C20_Witness ==
    /\ formErrors = {"sugarLevel"}
    /\ submissions = 2
    /\ Cardinality(events) = 1
    /\ calls = <<>>

\* C21: no fetch of the browser carries the webhook secret and every one of
\* them goes to the local proxy endpoint; the relay's outbound call is the
\* only request with the secret header, taken from its environment.
C21_SecretConfinement ==
    /\ \A i \in 1..Len(posts) :
          posts[i].secret = NoSecret /\ posts[i].url = "/api/webhook-proxy"
    /\ \A i \in 1..Len(rCalls) : rCalls[i].secret = rEnv.secret

\* C22: whichever save path calls updateProfile, the telegram_ids it writes
\* decode to the handles and relations of the form's rows with a handle,
\* and the profile loaded after the write shows those rows.
C22_TelegramRoundTrip ==
    [][/\ (pPc = "idle" /\ pPc' = "update") =>
             ParseTelegramIds(pUpdate'.updates.telegram_ids) =
                 SelectSeq(pForm.telegramIds, LAMBDA x : x.handle # <<>>)
       /\ (pPc = "fetch" /\ pPc' = "idle" /\ pForm' # pForm) =>
             pForm'.telegramIds = ParseTelegramIds(pUpdate.updates.telegram_ids)
      ]_vars

\* C23: a mounted Dashboard issues getDailyReadings at most once, issues
\* none after its load attempt has completed, and a load that fails leaves
\* the readings it held unchanged.
C23_DashboardLoadsOnce ==
    [][/\ hIssued' <= 1
       /\ ~isInitialLoad => hIssued' = hIssued
       /\ (Len(hLoads') < Len(hLoads) /\ hLast' = "error") => hReadings' = hReadings
      ]_vars

\* C24: whenever no fetchProfile is in flight, a profile held by the
\* provider belongs to the user it holds.
C24_ProfileMatchesUser ==
    (aFetches = <<>> /\ pProfile # NoProfile) =>
        (pUser # NoUser /\ pProfile.user_id = pUser)

\* C25: the provider's loading flag eventually becomes false and stays
\* false.
C25_AuthInitTerminates == <>[](~aLoading)

\* C26: every secondary_emails entry handed to updateProfile or held by
\* the store has a valid email before its colon, and every telegram_ids
\* entry has a handle before its colon.
C26_OnlyValidatedContacts ==
    \A u \in {pUpdate.updates} \cup {[telegram_ids |-> r.telegram_ids,
                                      secondary_emails |-> r.secondary_emails] :
                                         r \in profiles} :
        /\ \A i \in 1..Len(u.secondary_emails) :
              IsEmail(SplitOn(u.secondary_emails[i], ":")[1])
        /\ \A i \in 1..Len(u.telegram_ids) :
              SplitOn(u.telegram_ids[i], ":")[1] # <<>>

\* C27: after every step each editing index is unset or an index into its
\* list, and a step that is not an edit of the form (a save, a settled
\* call, a profile that loads) leaves the row under an editing index it
\* keeps as it was.
C27_EditingIndexValid ==
    [][/\ editingTelegramId' \in {NoIndex} \cup (0..(Len(pForm'.telegramIds) - 1))
       /\ editingSecondaryEmail' \in {NoIndex} \cup (0..(Len(pForm'.secondaryEmails) - 1))
       /\ (edits' = edits /\ editingTelegramId # NoIndex
              /\ editingTelegramId' = editingTelegramId) =>
             pForm'.telegramIds[editingTelegramId + 1] =
                 pForm.telegramIds[editingTelegramId + 1]
       /\ (edits' = edits /\ editingSecondaryEmail # NoIndex
              /\ editingSecondaryEmail' = editingSecondaryEmail) =>
             pForm'.secondaryEmails[editingSecondaryEmail + 1] =
                 pForm.secondaryEmails[editingSecondaryEmail + 1]
      ]_vars

C29_MultiSelectInvariant ==
    [][/\ \A i, j \in 1..Len(selected') : selected'[i] = selected'[j] => i = j
       /\ \A i, j \in 1..Len(selected') :
             i < j =>
                \/ ~Includes(selected, selected'[j])
                \/ \E k, l \in 1..Len(selected) :
                      k < l /\ selected[k] = selected'[i] /\ selected[l] = selected'[j]
       /\ \A i \in 1..Len(availableOptions') :
             ~Includes(selected', availableOptions'[i])
       /\ mLast'.op = "select" => \A i \in 1..Len(selected) : selected'[i] = selected[i]
       /\ mLast'.op = "keydown" =>
             IF mLast'.key = "Backspace" /\ searchValue = <<>> /\ selected # <<>>
             THEN selected' = SubSeq(selected, 1, Len(selected) - 1)
             ELSE selected' = selected]_vars

C29_Witness ==
    /\ mLast = [op |-> "keydown", key |-> "Backspace"]
    /\ searchValue = <<>>
    /\ selected = <<Options[3], Options[1]>>
    /\ availableOptions = <<Options[2]>>

\* C30: after every step of the ReadingsTable the current page lies between
\* 1 and max(1, totalPages) of the filtered data; a step that sets a filter,
\* clears the filters or changes the sort order leaves the table on page 1;
\* and the sort toggle changes neither the sort order nor the page while a
\* single date is selected.
C30_PageBounds ==
    [][/\ currentPage' >= 1
       /\ currentPage' <= (IF TotalPages(tData', tDate', dateRange') > 1
                           THEN TotalPages(tData', tDate', dateRange') ELSE 1)
       /\ (tLast' \in {"date", "range", "clear"}) => currentPage' = 1
       /\ (tDate' # tDate \/ dateRange' # dateRange \/ sortOrder' # sortOrder)
             => currentPage' = 1
       /\ (tDate # NoDay /\ tLast' = "sort")
             => (sortOrder' = sortOrder /\ currentPage' = currentPage)]_vars

C30_Witness ==
    /\ tLast = "next"
    /\ dateRange = [from |-> 1, to |-> 8]
    /\ Len(tData) = 15
    /\ currentPage = 2
    /\ sortOrder = "asc"

====
